---- MODULE Spec2Model ----
(***************************************************************************)
(* A model of the two-pass RISC-V assembler (riscv_assembler.py) and of    *)
(* the front ends that drive it (its own main, run.py, assembler_gui.py).  *)
(*                                                                         *)
(* Text is modelled character by character: a Python str is a sequence of  *)
(* one-character strings, so that comment stripping, strip(), split(),     *)
(* lower() and int() are computed the way the code computes them.          *)
(* A machine word is a pair <<hi, lo>> of its upper and lower 16 bits      *)
(* (value hi * 65536 + lo); Python integers are unbounded, so hi is not    *)
(* truncated by the model: a word is below 2^32 exactly when hi < 65536.   *)
(***************************************************************************)
EXTENDS Integers, Sequences, FiniteSets, TLC

(***************************************************************************)
(* Python str primitives                                                   *)
(***************************************************************************)
Whitespace == {" ", "\t", "\r"}

UpperLetters ==
  <<"A","B","C","D","E","F","G","H","I","J","K","L","M",
    "N","O","P","Q","R","S","T","U","V","W","X","Y","Z">>

LowerLetters ==
  <<"a","b","c","d","e","f","g","h","i","j","k","l","m",
    "n","o","p","q","r","s","t","u","v","w","x","y","z">>

DigitChars == <<"0","1","2","3","4","5","6","7","8","9">>

HexChars ==
  <<"0","1","2","3","4","5","6","7","8","9","a","b","c","d","e","f">>

IndexIn(c, t) ==
  LET I == {i \in 1..Len(t) : t[i] = c}
  IN  IF I = {} THEN 0 ELSE CHOOSE i \in I : TRUE

lowerChar(c) ==
  LET i == IndexIn(c, UpperLetters) IN IF i = 0 THEN c ELSE LowerLetters[i]

lower(s) == [i \in 1..Len(s) |-> lowerChar(s[i])]

\* the k-th smallest element of a finite set of integers
NthOf(S, k) == CHOOSE x \in S : Cardinality({y \in S : y < x}) = k - 1

lstrip(s) ==
  LET I == {i \in 1..Len(s) : s[i] \notin Whitespace}
  IN  IF I = {} THEN <<>> ELSE SubSeq(s, NthOf(I, 1), Len(s))

rstrip(s) ==
  LET I == {i \in 1..Len(s) : s[i] \notin Whitespace}
  IN  IF I = {} THEN <<>> ELSE SubSeq(s, 1, NthOf(I, Cardinality(I)))

strip(s) == lstrip(rstrip(s))

\* s.replace(a, b) for one-character a and b
replace(s, a, b) == [i \in 1..Len(s) |-> IF s[i] = a THEN b ELSE s[i]]

\* s.replace(a, '')
remove(s, a) == SelectSeq(s, LAMBDA c : c # a)

\* index of the first character of s that lies in C, 0 when there is none
FirstIn(s, C) ==
  LET I == {i \in 1..Len(s) : s[i] \in C}
  IN  IF I = {} THEN 0 ELSE CHOOSE i \in I : \A j \in I : i <= j

startswith(s, p) == Len(s) >= Len(p) /\ SubSeq(s, 1, Len(p)) = p

\* s.split() : maximal runs of non-whitespace
split(s) ==
  LET first == {i \in 1..Len(s) :
                  /\ s[i] \notin Whitespace
                  /\ i = 1 \/ s[i - 1] \in Whitespace}
      last  == {i \in 1..Len(s) :
                  /\ s[i] \notin Whitespace
                  /\ i = Len(s) \/ s[i + 1] \in Whitespace}
  IN  [k \in 1..Cardinality(first) |->
         SubSeq(s, NthOf(first, k), NthOf(last, k))]

\* s.split(sep) for a one-character sep: always at least one piece
splitOn(s, sep) ==
  LET at == {0, Len(s) + 1} \cup {i \in 1..Len(s) : s[i] = sep}
  IN  [k \in 1..(Cardinality(at) - 1) |->
         SubSeq(s, NthOf(at, k) + 1, NthOf(at, k + 1) - 1)]

\* the str as a TLA+ string: a dictionary key, a diagnostic's text
RECURSIVE Str(_)
Str(cs) ==
  IF cs = <<>> THEN ""
  ELSE IF Len(cs) = 1 THEN cs[1]
  ELSE Str(SubSeq(cs, 1, Len(cs) \div 2))
       \o Str(SubSeq(cs, Len(cs) \div 2 + 1, Len(cs)))

(***************************************************************************)
(* Python int(s) and int(s, base)                                          *)
(***************************************************************************)
\* "name = v" followed by F(name): a local variable of the code
Let(v, F(_)) == F(v)

Ok(v) == [ok |-> TRUE, v |-> v, err |-> ""]
Raise(e) == [ok |-> FALSE, v |-> 0, err |-> e]

DigitVal(c) == IndexIn(lowerChar(c), HexChars) - 1

\* digits of the base, single underscores allowed between two digits
DigitsOk(s, base) ==
  /\ s # <<>>
  /\ \A i \in 1..Len(s) :
        \/ DigitVal(s[i]) \in 0..(base - 1)
        \/ s[i] = "_" /\ 1 < i /\ i < Len(s) /\ s[i - 1] # "_"

RECURSIVE DigitsValue(_, _, _)
DigitsValue(s, base, acc) ==
  IF s = <<>> THEN acc
  ELSE IF Head(s) = "_" THEN DigitsValue(Tail(s), base, acc)
  ELSE DigitsValue(Tail(s), base, acc * base + DigitVal(Head(s)))

ParseDigits(digits, base, sign) ==
  IF DigitsOk(digits, base) THEN Ok(sign * DigitsValue(digits, base, 0))
  ELSE Raise("invalid literal for int()")

SkipUnderscore(s) == IF s # <<>> /\ Head(s) = "_" THEN Tail(s) ELSE s

\* the digits after the base's prefix, when the text has it
AfterPrefix(s, prefixes) ==
  IF \E p \in prefixes : startswith(s, p)
    THEN SkipUnderscore(SubSeq(s, 3, Len(s)))
    ELSE s

\* int(str, base): surrounding whitespace, a sign, the base's prefix, digits
PyInt(str, base, prefixes) ==
  Let(strip(str), LAMBDA s :
    ParseDigits(
      AfterPrefix(IF s # <<>> /\ Head(s) \in {"-", "+"} THEN Tail(s) ELSE s,
                  prefixes),
      base,
      IF s # <<>> /\ Head(s) = "-" THEN 0 - 1 ELSE 1))

(***************************************************************************)
(* Tables                                                                  *)
(***************************************************************************)
\* the decimal text of a natural number, as Python writes the table's keys
RECURSIVE ToDec(_)
ToDec(n) ==
  IF n < 10 THEN <<DigitChars[n + 1]>>
  ELSE ToDec(n \div 10) \o <<DigitChars[(n % 10) + 1]>>

REGISTERS ==
  LET pairs ==
        {<<Str(<<"x">> \o ToDec(n)), n>> : n \in 0..31}
        \cup {<<"zero", 0>>, <<"ra", 1>>, <<"sp", 2>>, <<"gp", 3>>,
              <<"tp", 4>>, <<"fp", 8>>, <<"s0", 8>>, <<"s1", 9>>}
        \cup {<<Str(<<"t">> \o ToDec(n)), 5 + n>> : n \in 0..2}
        \cup {<<Str(<<"t">> \o ToDec(n)), 25 + n>> : n \in 3..6}
        \cup {<<Str(<<"a">> \o ToDec(n)), 10 + n>> : n \in 0..7}
        \cup {<<Str(<<"s">> \o ToDec(n)), 16 + n>> : n \in 2..11}
  IN  [k \in {p[1] : p \in pairs} |->
         (CHOOSE p \in pairs : p[1] = k)[2]]

OPCODES ==
  [add |-> 51, sub |-> 51, and |-> 51, or |-> 51, xor |-> 51, sll |-> 51,
   srl |-> 51, sra |-> 51, slt |-> 51, sltu |-> 51,
   addi |-> 19, andi |-> 19, ori |-> 19, xori |-> 19, slti |-> 19,
   sltiu |-> 19, slli |-> 19, srli |-> 19, srai |-> 19,
   lw |-> 3, lh |-> 3, lb |-> 3, lhu |-> 3, lbu |-> 3,
   sw |-> 35, sh |-> 35, sb |-> 35,
   beq |-> 99, bne |-> 99, blt |-> 99, bge |-> 99, bltu |-> 99, bgeu |-> 99,
   jal |-> 111, jalr |-> 103, lui |-> 55, auipc |-> 23,
   ecall |-> 115, halt |-> 115,
   rotl |-> 11, rotr |-> 11, rng |-> 11]

FUNCT3 ==
  [add |-> 0, sub |-> 0, sll |-> 1, slt |-> 2, sltu |-> 3, xor |-> 4,
   srl |-> 5, sra |-> 5, or |-> 6, and |-> 7,
   addi |-> 0, slti |-> 2, sltiu |-> 3, xori |-> 4, ori |-> 6, andi |-> 7,
   slli |-> 1, srli |-> 5, srai |-> 5,
   lb |-> 0, lh |-> 1, lw |-> 2, lbu |-> 4, lhu |-> 5,
   sb |-> 0, sh |-> 1, sw |-> 2,
   beq |-> 0, bne |-> 1, blt |-> 4, bge |-> 5, bltu |-> 6, bgeu |-> 7,
   jalr |-> 0,
   rotl |-> 2, rotr |-> 3, rng |-> 4]

FUNCT7 ==
  [add |-> 0, sub |-> 32, sll |-> 0, slt |-> 0, sltu |-> 0, xor |-> 0,
   srl |-> 0, sra |-> 32, or |-> 0, and |-> 0,
   slli |-> 0, srli |-> 0, srai |-> 32,
   rotl |-> 0, rotr |-> 0, rng |-> 0]

(***************************************************************************)
(* Integer bit operations                                                  *)
(***************************************************************************)
Pow2(n) == 2 ^ n

\* a >> n on a Python int: an arithmetic shift, the floor of a / 2^n
Shr(a, n) == a \div Pow2(n)

\* a & (2^n - 1) on a Python int of either sign
Low(a, n) == a % Pow2(n)

\* a | b on the low w bits of two non-negative ints, by halves
RECURSIVE BitOrW(_, _, _)
BitOrW(a, b, w) ==
  IF a = 0 THEN b
  ELSE IF b = 0 THEN a
  ELSE IF w = 1 THEN 1
  ELSE BitOrW(a % Pow2(w \div 2), b % Pow2(w \div 2), w \div 2)
       + Pow2(w \div 2)
         * BitOrW(a \div Pow2(w \div 2), b \div Pow2(w \div 2), w - w \div 2)

\* a | b on non-negative ints below 2^31
BitOr(a, b) == BitOrW(a, b, 31)

\* v << n as a word, for v >= 0 and 0 <= n < 32
Shl(v, n) ==
  IF n >= 16 THEN <<v * Pow2(n - 16), 0>>
  ELSE <<v \div Pow2(16 - n), (v % Pow2(16 - n)) * Pow2(n)>>

Or(w1, w2) == <<BitOr(w1[1], w2[1]), BitOr(w1[2], w2[2])>>

RECURSIVE OrAll(_)
OrAll(ws) ==
  IF ws = <<>> THEN <<0, 0>>
  ELSE IF Len(ws) = 1 THEN ws[1]
  ELSE Or(OrAll(SubSeq(ws, 1, Len(ws) \div 2)),
          OrAll(SubSeq(ws, Len(ws) \div 2 + 1, Len(ws))))

\* bits hi..lo of a word below 2^32 (a decoder: it reads a word's fields)
Bits(w, hi, lo) ==
  IF lo >= 16 THEN (w[1] \div Pow2(lo - 16)) % Pow2(hi - lo + 1)
  ELSE IF hi < 16 THEN (w[2] \div Pow2(lo)) % Pow2(hi - lo + 1)
  ELSE (w[2] \div Pow2(lo)) + Pow2(16 - lo) * (w[1] % Pow2(hi - 15))

(***************************************************************************)
(* Operand parser                                                          *)
(***************************************************************************)
\* the table looked up without ".lower()"
parse_register_CaseSensitive(reg_str) ==
  Let(Str(remove(strip(reg_str), ",")), LAMBDA key :
    IF key \in DOMAIN REGISTERS THEN Ok(REGISTERS[key])
    ELSE Raise("Unknown register"))

\* "reg_str.strip().lower().replace(',', '')", looked up in REGISTERS
parse_register(reg_str) ==
  Let(Str(remove(lower(strip(reg_str)), ",")), LAMBDA key :
    IF key \in DOMAIN REGISTERS THEN Ok(REGISTERS[key])
    ELSE Raise("Unknown register"))

\* "Handle hex, binary, or decimal"
ParseLiteral(s) ==
  IF startswith(s, <<"0", "x">>) \/ startswith(s, <<"0", "X">>)
    THEN PyInt(s, 16, {<<"0", "x">>, <<"0", "X">>})
  ELSE IF startswith(s, <<"0", "b">>) \/ startswith(s, <<"0", "B">>)
    THEN PyInt(s, 2, {<<"0", "b">>, <<"0", "B">>})
  ELSE PyInt(s, 10, {})

\* the bound one too high: max_val = 1 << (bits - 1)
CheckBounds_OffByOne(parsed, bits, signed) ==
  LET value   == parsed.v
      min_val == IF signed THEN 0 - Pow2(bits - 1) ELSE 0
      max_val == IF signed THEN Pow2(bits - 1) ELSE Pow2(bits)
  IN  IF ~parsed.ok THEN parsed
      ELSE IF value < min_val \/ value > max_val
        THEN Raise("Immediate out of range")
      ELSE IF value < 0 THEN Ok(Low(value, bits))
      ELSE Ok(value)

\* "Check bounds" and "Convert to unsigned for encoding"
CheckBounds(parsed, bits, signed) ==
  LET value   == parsed.v
      min_val == IF signed THEN 0 - Pow2(bits - 1) ELSE 0
      max_val == IF signed THEN Pow2(bits - 1) - 1 ELSE Pow2(bits) - 1
  IN  IF ~parsed.ok THEN parsed
      ELSE IF value < min_val \/ value > max_val
        THEN Raise("Immediate out of range")
      ELSE IF value < 0 THEN Ok(Low(value, bits))
      ELSE Ok(value)

parse_immediate(imm_str, bits, signed) ==
  CheckBounds(ParseLiteral(remove(strip(imm_str), ",")), bits, signed)

DecimalDigits == {DigitChars[i] : i \in 1..10}

WordChars ==
  {UpperLetters[i] : i \in 1..26} \cup {LowerLetters[i] : i \in 1..26}
  \cup DecimalDigits \cup {"_"}

\* the length of the longest prefix of s made of characters of C
Run(s, C) ==
  LET I == {i \in 1..Len(s) : s[i] \notin C}
  IN  IF I = {} THEN Len(s) ELSE NthOf(I, 1) - 1

Drop(s, n) == SubSeq(s, n + 1, Len(s))

\* re.match(r'(-?\d+)\s*\(\s*(\w+)\s*\)', s): the two groups, or no match.
\* a, b, c, d, e are the positions after the digits, the blanks, the "(" and
\* its blanks, the word, and the blanks before the ")"
MatchMemoryOperand(s) ==
  Let(IF s # <<>> /\ Head(s) = "-" THEN 1 ELSE 0, LAMBDA sign :
  Let(sign + Run(Drop(s, sign), DecimalDigits), LAMBDA a :
  Let(a + Run(Drop(s, a), Whitespace), LAMBDA b :
  Let(b + 1 + Run(Drop(s, b + 1), Whitespace), LAMBDA c :
  Let(c + Run(Drop(s, c), WordChars), LAMBDA d :
  Let(d + Run(Drop(s, d), Whitespace), LAMBDA e :
    IF /\ a > sign
       /\ b < Len(s) /\ s[b + 1] = "("
       /\ d > c
       /\ e < Len(s) /\ s[e + 1] = ")"
      THEN Ok(<<SubSeq(s, 1, a), SubSeq(s, c + 1, d)>>)
      ELSE Raise("Invalid memory operand")))))))

parse_memory_operand(operand) ==
  Let(MatchMemoryOperand(strip(operand)), LAMBDA match :
    IF ~match.ok THEN match
    ELSE Let(parse_immediate(match.v[1], 12, TRUE), LAMBDA offset :
      IF ~offset.ok THEN offset
      ELSE Let(parse_register(match.v[2]), LAMBDA base_reg :
        IF ~base_reg.ok THEN base_reg
        ELSE Ok(<<offset.v, base_reg.v>>))))

(***************************************************************************)
(* Instruction encoders                                                    *)
(***************************************************************************)
\* funct7 left out of the word
encode_r_type_NoFunct7(instr, rd, rs1, rs2) ==
  OrAll(<<Shl(rs2, 20), Shl(rs1, 15), Shl(FUNCT3[instr], 12), Shl(rd, 7),
          Shl(OPCODES[instr], 0)>>)

encode_r_type(instr, rd, rs1, rs2) ==
  OrAll(<<Shl(FUNCT7[instr], 25), Shl(rs2, 20), Shl(rs1, 15),
          Shl(FUNCT3[instr], 12), Shl(rd, 7), Shl(OPCODES[instr], 0)>>)

\* the shifts' funct7 not merged into the immediate
encode_i_type_NoShiftFunct7(instr, rd, rs1, imm) ==
  OrAll(<<Shl(Low(imm, 12), 20), Shl(rs1, 15), Shl(FUNCT3[instr], 12),
          Shl(rd, 7), Shl(OPCODES[instr], 0)>>)

encode_i_type(instr, rd, rs1, imm) ==
  LET imm2 == IF instr \in {"slli", "srli", "srai"}
                THEN BitOr(FUNCT7[instr] * 32, Low(imm, 5))
                ELSE imm
  IN  OrAll(<<Shl(Low(imm2, 12), 20), Shl(rs1, 15), Shl(FUNCT3[instr], 12),
              Shl(rd, 7), Shl(OPCODES[instr], 0)>>)

encode_s_type(instr, rs2, rs1, imm) ==
  LET imm_11_5 == Low(Shr(imm, 5), 7)
      imm_4_0  == Low(imm, 5)
  IN  OrAll(<<Shl(imm_11_5, 25), Shl(rs2, 20), Shl(rs1, 15),
              Shl(FUNCT3[instr], 12), Shl(imm_4_0, 7),
              Shl(OPCODES[instr], 0)>>)

\* the branch offset laid out as a store offset: imm[11:5] and imm[4:0]
encode_b_type_StoreLayout(instr, rs1, rs2, imm) ==
  OrAll(<<Shl(Low(Shr(imm, 5), 7), 25), Shl(rs2, 20), Shl(rs1, 15),
          Shl(FUNCT3[instr], 12), Shl(Low(imm, 5), 7),
          Shl(OPCODES[instr], 0)>>)

encode_b_type(instr, rs1, rs2, imm) ==
  LET imm_12   == Low(Shr(imm, 12), 1)
      imm_11   == Low(Shr(imm, 11), 1)
      imm_10_5 == Low(Shr(imm, 5), 6)
      imm_4_1  == Low(Shr(imm, 1), 4)
  IN  OrAll(<<Shl(imm_12, 31), Shl(imm_10_5, 25), Shl(rs2, 20),
              Shl(rs1, 15), Shl(FUNCT3[instr], 12), Shl(imm_4_1, 8),
              Shl(imm_11, 7), Shl(OPCODES[instr], 0)>>)

encode_u_type(instr, rd, imm) ==
  OrAll(<<Shl(Low(imm, 20), 12), Shl(rd, 7), Shl(OPCODES[instr], 0)>>)

\* the top bit of the offset taken without its mask: "(imm >> 20)"
encode_j_type_NoTopMask(instr, rd, imm) ==
  LET imm_20    == Shr(imm, 20)
      imm_19_12 == Low(Shr(imm, 12), 8)
      imm_11    == Low(Shr(imm, 11), 1)
      imm_10_1  == Low(Shr(imm, 1), 10)
  IN  OrAll(<<Shl(imm_20, 31), Shl(imm_10_1, 21), Shl(imm_11, 20),
              Shl(imm_19_12, 12), Shl(rd, 7), Shl(OPCODES[instr], 0)>>)

encode_j_type(instr, rd, imm) ==
  LET imm_20    == Low(Shr(imm, 20), 1)
      imm_19_12 == Low(Shr(imm, 12), 8)
      imm_11    == Low(Shr(imm, 11), 1)
      imm_10_1  == Low(Shr(imm, 1), 10)
  IN  OrAll(<<Shl(imm_20, 31), Shl(imm_10_1, 21), Shl(imm_11, 20),
              Shl(imm_19_12, 12), Shl(rd, 7), Shl(OPCODES[instr], 0)>>)

\* the word without "(funct3 << 12)"
encode_crypto_NoFunct3(instr, rd, rs1, rs2) ==
  OrAll(<<Shl(FUNCT7[instr], 25), Shl(rs2, 20), Shl(rs1, 15),
          Shl(rd, 7), Shl(OPCODES[instr], 0)>>)

encode_crypto(instr, rd, rs1, rs2) ==
  OrAll(<<Shl(FUNCT7[instr], 25), Shl(rs2, 20), Shl(rs1, 15),
          Shl(FUNCT3[instr], 12), Shl(rd, 7), Shl(OPCODES[instr], 0)>>)

(***************************************************************************)
(* assemble_instruction: one instruction text to a word, or an exception   *)
(***************************************************************************)
\* parts[k] with Python's 0-based k: an IndexError past the end
At(parts, k) ==
  IF k + 1 <= Len(parts) THEN Ok(parts[k + 1])
  ELSE Raise("list index out of range")

RegAt(parts, k) ==
  Let(At(parts, k), LAMBDA a : IF a.ok THEN parse_register(a.v) ELSE a)

ImmAt(parts, k, bits, signed) ==
  Let(At(parts, k), LAMBDA a :
    IF a.ok THEN parse_immediate(a.v, bits, signed) ELSE a)

MemAt(parts, k) ==
  Let(At(parts, k), LAMBDA a : IF a.ok THEN parse_memory_operand(a.v) ELSE a)

\* the statements ran in this order: the first exception wins, else the value
Try(results, value) ==
  LET I == {i \in 1..Len(results) : ~results[i].ok}
  IN  IF I = {} THEN Ok(value)
      ELSE results[CHOOSE i \in I : \A j \in I : i <= j]

\* the literal tried first, the label table only when it does not parse
TargetOffset_LiteralFirst(parts, k, bits, labels, current_addr) ==
  Let(At(parts, k), LAMBDA a :
    IF ~a.ok THEN a
    ELSE Let(parse_immediate(a.v, bits, TRUE), LAMBDA lit :
      IF lit.ok THEN lit
      ELSE IF Str(a.v) \in DOMAIN labels
        THEN Ok(labels[Str(a.v)] - current_addr)
      ELSE lit))

\* the label looked up with its letters in lower case
TargetOffset_CaseInsensitive(parts, k, bits, labels, current_addr) ==
  Let(At(parts, k), LAMBDA a :
    IF ~a.ok THEN a
    ELSE Let(Str(lower(a.v)), LAMBDA name :
      IF name \in DOMAIN labels THEN Ok(labels[name] - current_addr)
      ELSE parse_immediate(a.v, bits, TRUE)))

\* the offset of a label checked against the range of the format, as a
\* literal is
TargetOffset_LabelChecked(parts, k, bits, labels, current_addr) ==
  Let(At(parts, k), LAMBDA a :
    IF ~a.ok THEN a
    ELSE Let(Str(a.v), LAMBDA name :
      IF name \in DOMAIN labels
        THEN CheckBounds(Ok(labels[name] - current_addr), bits, TRUE)
      ELSE parse_immediate(a.v, bits, TRUE)))

\* "if parts[k] in self.labels: offset = self.labels[parts[k]] - current_addr
\*  else: offset = self.parse_immediate(parts[k], bits=bits, signed=True)"
TargetOffset(parts, k, bits, labels, current_addr) ==
  Let(At(parts, k), LAMBDA a :
    IF ~a.ok THEN a
    ELSE Let(Str(a.v), LAMBDA name :
      IF name \in DOMAIN labels THEN Ok(labels[name] - current_addr)
      ELSE parse_immediate(a.v, bits, TRUE)))

RTypeNames ==
  {"add", "sub", "and", "or", "xor", "sll", "srl", "sra", "slt", "sltu"}
IAluNames == {"addi", "andi", "ori", "xori", "slti", "sltiu"}
ShiftNames == {"slli", "srli", "srai"}
LoadNames == {"lw", "lh", "lb", "lhu", "lbu"}
StoreNames == {"sw", "sh", "sb"}
BranchNames == {"beq", "bne", "blt", "bge", "bltu", "bgeu"}

\* li reading its immediate as unsigned
LiImmediate_Unsigned(parts) == ImmAt(parts, 2, 12, FALSE)

\* "imm = self.parse_immediate(parts[2], bits=12)" of li
LiImmediate(parts) == ImmAt(parts, 2, 12, TRUE)

\* the "if instr ..." chain, on the tokens of a non-empty token list
Dispatch(instr, parts, current_addr, labels) ==
  CASE instr = "nop" -> Ok(encode_i_type("addi", 0, 0, 0))
  [] instr = "li" ->
    Let(RegAt(parts, 1), LAMBDA rd :
    Let(LiImmediate(parts), LAMBDA imm :
      Try(<<rd, imm>>, encode_i_type("addi", rd.v, 0, imm.v))))
  [] instr = "mv" ->
    Let(RegAt(parts, 1), LAMBDA rd :
    Let(RegAt(parts, 2), LAMBDA rs :
      Try(<<rd, rs>>, encode_i_type("addi", rd.v, rs.v, 0))))
  [] instr = "j" ->
    Let(TargetOffset(parts, 1, 21, labels, current_addr), LAMBDA offset :
      Try(<<offset>>, encode_j_type("jal", 0, offset.v)))
  [] instr \in RTypeNames ->
    Let(RegAt(parts, 1), LAMBDA rd :
    Let(RegAt(parts, 2), LAMBDA rs1 :
    Let(RegAt(parts, 3), LAMBDA rs2 :
      Try(<<rd, rs1, rs2>>, encode_r_type(instr, rd.v, rs1.v, rs2.v)))))
  [] instr \in IAluNames ->
    Let(RegAt(parts, 1), LAMBDA rd :
    Let(RegAt(parts, 2), LAMBDA rs1 :
    Let(ImmAt(parts, 3, 12, TRUE), LAMBDA imm :
      Try(<<rd, rs1, imm>>, encode_i_type(instr, rd.v, rs1.v, imm.v)))))
  [] instr \in ShiftNames ->
    Let(RegAt(parts, 1), LAMBDA rd :
    Let(RegAt(parts, 2), LAMBDA rs1 :
    Let(ImmAt(parts, 3, 5, FALSE), LAMBDA shamt :
      Try(<<rd, rs1, shamt>>,
          encode_i_type(instr, rd.v, rs1.v, shamt.v)))))
  [] instr \in LoadNames ->
    Let(RegAt(parts, 1), LAMBDA rd :
    Let(MemAt(parts, 2), LAMBDA mem :
      Try(<<rd, mem>>, encode_i_type(instr, rd.v, mem.v[2], mem.v[1]))))
  [] instr \in StoreNames ->
    Let(RegAt(parts, 1), LAMBDA rs2 :
    Let(MemAt(parts, 2), LAMBDA mem :
      Try(<<rs2, mem>>, encode_s_type(instr, rs2.v, mem.v[2], mem.v[1]))))
  [] instr \in BranchNames ->
    Let(RegAt(parts, 1), LAMBDA rs1 :
    Let(RegAt(parts, 2), LAMBDA rs2 :
    Let(TargetOffset(parts, 3, 13, labels, current_addr), LAMBDA offset :
      Try(<<rs1, rs2, offset>>,
          encode_b_type(instr, rs1.v, rs2.v, offset.v)))))
  [] instr = "jal" ->
    Let(RegAt(parts, 1), LAMBDA rd :
    Let(TargetOffset(parts, 2, 21, labels, current_addr), LAMBDA offset :
      Try(<<rd, offset>>, encode_j_type(instr, rd.v, offset.v))))
  [] instr = "jalr" ->
    Let(RegAt(parts, 1), LAMBDA rd :
    Let(At(parts, 2), LAMBDA p2 :
      IF ~rd.ok THEN rd
      ELSE IF ~p2.ok THEN p2
      ELSE IF FirstIn(p2.v, {"("}) # 0 THEN
        Let(parse_memory_operand(p2.v), LAMBDA mem :
          Try(<<mem>>, encode_i_type(instr, rd.v, mem.v[2], mem.v[1])))
      ELSE
        Let(parse_register(p2.v), LAMBDA rs1 :
        Let(IF Len(parts) > 3 THEN ImmAt(parts, 3, 12, TRUE) ELSE Ok(0),
            LAMBDA offset :
          Try(<<rs1, offset>>,
              encode_i_type(instr, rd.v, rs1.v, offset.v))))))
  [] instr \in {"lui", "auipc"} ->
    Let(RegAt(parts, 1), LAMBDA rd :
    Let(ImmAt(parts, 2, 20, FALSE), LAMBDA imm :
      Try(<<rd, imm>>, encode_u_type(instr, rd.v, imm.v))))
  [] instr \in {"halt", "ecall"} -> Ok(<<0, 115>>)
  [] instr = "rng" ->
    Let(RegAt(parts, 1), LAMBDA rd :
      Try(<<rd>>, encode_crypto(instr, rd.v, 0, 0)))
  [] instr \in {"rotl", "rotr"} ->
    Let(RegAt(parts, 1), LAMBDA rd :
    Let(RegAt(parts, 2), LAMBDA rs1 :
    Let(RegAt(parts, 3), LAMBDA rs2 :
      Try(<<rd, rs1, rs2>>, encode_crypto(instr, rd.v, rs1.v, rs2.v)))))
  [] OTHER -> Raise("Unknown instruction")

assemble_instruction(line, current_addr, labels) ==
  Let(split(replace(line, ",", " ")), LAMBDA parts :
    IF parts = <<>> THEN Raise("list index out of range")
    ELSE Dispatch(Str(lower(parts[1])), parts, current_addr, labels))

(***************************************************************************)
(* The assembler instance and its caller                                   *)
(***************************************************************************)
VARIABLES
  source,           \* the source text handed to assemble
  flow,             \* the caller: "call", "main", "run", "gui_assemble", ...
  pc,               \* where the caller and the assembler are
  lines,            \* source.split('\n')
  line_num,         \* first_pass's loop variable (1-based)
  idx,              \* second_pass's position in self.instructions (1-based)
  labels,           \* self.labels
  instructions,     \* self.instructions: <<address, text, line_num>>
  machine_code,     \* self.machine_code
  current_address,  \* self.current_address
  errors,           \* self.errors
  outputs,          \* serializer calls made by the front end, in order
  twin,             \* a second instance, where the caller constructs two
  probe             \* one call of assemble_instruction: arguments and result

vars == <<source, flow, pc, lines, line_num, idx, labels, instructions,
          machine_code, current_address, errors, outputs, twin,
          probe>>

asm_vars == <<labels, instructions, machine_code, current_address, errors>>

NoLabels == [n \in {} |-> 0]

\* the label bound to the address after the one it stands at
SetLabel_NextAddress(lbls, label, address) ==
  [n \in DOMAIN lbls \cup {label} |->
     IF n = label THEN address + 4 ELSE lbls[n]]

\* the table replaced by the one binding
SetLabel_Forgetful(lbls, label, address) == [n \in {label} |-> address]

\* a name already in the table keeps its address
SetLabel_FirstWins(lbls, label, address) ==
  [n \in DOMAIN lbls \cup {label} |->
     IF n \in DOMAIN lbls THEN lbls[n] ELSE address]

\* self.labels[label] = address
SetLabel(lbls, label, address) ==
  [n \in DOMAIN lbls \cup {label} |-> IF n = label THEN address ELSE lbls[n]]

\* re.sub(r'[#;].*', '', line).strip()
StripComment(raw) ==
  LET c == FirstIn(raw, {"#", ";"})
  IN  strip(IF c = 0 THEN raw ELSE SubSeq(raw, 1, c - 1))

\* "self.instructions.append(...)" and "self.current_address += 4", without
\* the second statement
AppendInstruction_NoAdvance(st, text, n) ==
  [st EXCEPT !.instructions = Append(@, <<st.current_address, text, n>>)]

\* "self.instructions.append((self.current_address, line, line_num))" and
\* "self.current_address += 4"
AppendInstruction(st, text, n) ==
  [st EXCEPT !.instructions = Append(@, <<st.current_address, text, n>>),
             !.current_address = @ + 4]

\* one iteration of first_pass's loop, on the instance's fields
first_pass_line(st, raw, n) ==
  Let(StripComment(raw), LAMBDA line :
    IF line = <<>> THEN st
    ELSE IF FirstIn(line, {":"}) = 0 THEN AppendInstruction(st, line, n)
    ELSE
      Let(FirstIn(line, {":"}), LAMBDA colon :
      Let(strip(SubSeq(line, colon + 1, Len(line))), LAMBDA rest :
      Let([st EXCEPT !.labels =
              SetLabel(@, Str(strip(SubSeq(line, 1, colon - 1))),
                       st.current_address)], LAMBDA labelled :
        IF rest = <<>> THEN labelled
        ELSE AppendInstruction(labelled, rest, n)))))

\* the loop left at the first exception
TryExcept_FailFast(st, ins, code) ==
  IF st.errors # <<>> THEN st
  ELSE IF code.ok THEN [st EXCEPT !.machine_code = Append(@, code.v)]
  ELSE [st EXCEPT !.errors =
          Append(@, [line_num |-> ins[3], msg |-> code.err,
                     text |-> Str(ins[2])])]

\* the word put in front of the list
TryExcept_Prepend(st, ins, code) ==
  IF code.ok THEN [st EXCEPT !.machine_code = <<code.v>> \o @]
  ELSE [st EXCEPT !.errors =
          Append(@, [line_num |-> ins[3], msg |-> code.err,
                     text |-> Str(ins[2])])]

\* "except ValueError": an IndexError recorded nowhere
TryExcept_ValueErrorOnly(st, ins, code) ==
  IF code.ok THEN [st EXCEPT !.machine_code = Append(@, code.v)]
  ELSE IF code.err = "list index out of range" THEN st
  ELSE [st EXCEPT !.errors =
          Append(@, [line_num |-> ins[3], msg |-> code.err,
                     text |-> Str(ins[2])])]

\* "try: ... self.machine_code.append(code)
\*  except Exception as e: self.errors.append(f"Line {line_num}: {e} - ...")"
TryExcept(st, ins, code) ==
  IF code.ok THEN [st EXCEPT !.machine_code = Append(@, code.v)]
  ELSE [st EXCEPT !.errors =
          Append(@, [line_num |-> ins[3], msg |-> code.err,
                     text |-> Str(ins[2])])]

\* one iteration of second_pass's loop
second_pass_instr(st, ins) ==
  TryExcept(st, ins, assemble_instruction(ins[2], ins[1], st.labels))

\* first_pass and second_pass run to completion on an instance
RECURSIVE FirstPassFrom(_, _, _)
FirstPassFrom(st, ls, n) ==
  IF n > Len(ls) THEN st
  ELSE FirstPassFrom(first_pass_line(st, ls[n], n), ls, n + 1)

first_pass(st, ls) == FirstPassFrom([st EXCEPT !.current_address = 0], ls, 1)

RECURSIVE SecondPassFrom(_, _)
SecondPassFrom(st, k) ==
  IF k > Len(st.instructions) THEN st
  ELSE SecondPassFrom(second_pass_instr(st, st.instructions[k]), k + 1)

second_pass(st) == SecondPassFrom(st, 1)

Self ==
  [labels |-> labels, instructions |-> instructions,
   machine_code |-> machine_code, current_address |-> current_address,
   errors |-> errors]

SetSelf(st) ==
  /\ labels' = st.labels
  /\ instructions' = st.instructions
  /\ machine_code' = st.machine_code
  /\ current_address' = st.current_address
  /\ errors' = st.errors

\* RISCVAssembler(): the fields after __init__
NewAssembler ==
  [labels |-> NoLabels, instructions |-> <<>>, machine_code |-> <<>>,
   current_address |-> 0, errors |-> <<>>]

(***************************************************************************)
(* Source texts                                                            *)
(***************************************************************************)
Lexicon ==
  {<<"a","d","d">>,
   <<"s","u","b">>,
   <<"a","n","d">>,
   <<"o","r">>,
   <<"x","o","r">>,
   <<"s","l","l">>,
   <<"s","r","l">>,
   <<"s","r","a">>,
   <<"s","l","t">>,
   <<"s","l","t","u">>,
   <<"a","d","d","i">>,
   <<"a","n","d","i">>,
   <<"o","r","i">>,
   <<"x","o","r","i">>,
   <<"s","l","t","i">>,
   <<"s","l","t","i","u">>,
   <<"s","l","l","i">>,
   <<"s","r","l","i">>,
   <<"s","r","a","i">>,
   <<"l","w">>,
   <<"l","h">>,
   <<"l","b">>,
   <<"l","h","u">>,
   <<"l","b","u">>,
   <<"s","w">>,
   <<"s","h">>,
   <<"s","b">>,
   <<"b","e","q">>,
   <<"b","n","e">>,
   <<"b","l","t">>,
   <<"b","g","e">>,
   <<"b","l","t","u">>,
   <<"b","g","e","u">>,
   <<"j","a","l">>,
   <<"j","a","l","r">>,
   <<"l","u","i">>,
   <<"a","u","i","p","c">>,
   <<"e","c","a","l","l">>,
   <<"h","a","l","t">>,
   <<"r","o","t","l">>,
   <<"r","o","t","r">>,
   <<"r","n","g">>,
   <<"n","o","p">>,
   <<"l","i">>,
   <<"m","v">>,
   <<"j">>,
   <<"l","o","o","p">>,
   <<"e","n","d">>,
   <<"x","9","9">>,
   <<"f","o","o">>}
  \cup {<<"x">> \o ToDec(n) : n \in 0..31}

Spell == [t \in {Str(w) : w \in Lexicon} |-> CHOOSE w \in Lexicon : Str(w) = t]

\* a token written as a TLA+ string, as characters
Chars(t) == IF t \in DOMAIN Spell THEN Spell[t] ELSE <<t>>

RECURSIVE Text(_)
Text(tokens) ==
  IF tokens = <<>> THEN <<>> ELSE Chars(Head(tokens)) \o Text(Tail(tokens))

RECURSIVE JoinLines(_)
JoinLines(ls) ==
  IF ls = <<>> THEN <<>>
  ELSE IF Len(ls) = 1 THEN ls[1]
  ELSE ls[1] \o <<"\n">> \o JoinLines(Tail(ls))

\* the longest program, in lines, of the enumerated families
MaxLines == 3

RECURSIVE SeqsUpTo(_, _)
SeqsUpTo(S, n) ==
  IF n = 0 THEN {<<>>}
  ELSE LET shorter == SeqsUpTo(S, n - 1)
       IN  shorter \cup {Append(p, l) : p \in shorter, l \in S}

InsertAt(p, i, l) == SubSeq(p, 1, i - 1) \o <<l>> \o SubSeq(p, i, Len(p))

LinePool ==
  {Text(<<"loop", ":">>),
   Text(<<" ", "#", " ", "x1">>),
   Text(<<" ", "add", " ", "x2", ",", "x2", ",", " ", "x3">>),
   Text(<<"bne", " ", "x1", ",", "x2", ",", "loop">>),
   Text(<<"end", ":", " ", "halt", " ", ";", "end">>),
   Text(<<"j", " ", "end">>),
   Text(<<"add", " ", "x1", ",", "x99", ",", "x2">>),
   Text(<<"beq", " ", "x0", ",", "x0", ",", "8">>),
   Text(<<"8", ":", "nop">>)}

\* every branch and jump mnemonic, aimed at each label and at a literal
JumpTargets == {<<"loop">>, <<"end">>, <<"-", "8">>}

JumpLines ==
  {Text(<<m, " ", "x1", ",", "x2", ",", " ">> \o t) :
      m \in BranchNames, t \in JumpTargets}
  \cup {Text(<<"jal", " ", "x1", ",">> \o t) : t \in JumpTargets}
  \cup {Text(<<"J", "\t">> \o t) : t \in JumpTargets}

JumpContext ==
  {Text(<<"loop", ":">>),
   Text(<<"add", " ", "x2", ",", "x2", ",", "x3">>),
   Text(<<"end", ":", "halt">>)}

JumpPrograms ==
  LET places == {<<p, i>> \in (SeqsUpTo(JumpContext, MaxLines - 1) \ {<<>>})
                                \X (1..MaxLines) : i <= Len(p) + 1}
  IN  {InsertAt(pi[1], pi[2], l) : pi \in places, l \in JumpLines}

\* the end-to-end example
LoopExample ==
  <<Text(<<"loop", ":">>),
    Text(<<" ", "add", " ", "x2", ",", "x2", ",", "x3">>),
    Text(<<" ", "bne", " ", "x1", ",", "x2", ",", "loop">>),
    Text(<<" ", "halt">>)>>

\* the example, the five-line partial failure, offsets at the edges
ExamplePrograms ==
  {LoopExample,
   <<Text(<<"addi", " ", "x5", ",", " ", "x0", ",", " ", "7">>),
     Text(<<"loop", ":", " ", "add", " ", "x2", ",", "x2", ",", "x3">>),
     Text(<<"sub", " ", "x1", ",", "x99", ",", "x2">>),
     Text(<<"bne", " ", "x1", ",", "x2", ",", "loop">>),
     Text(<<"halt">>)>>,
   <<Text(<<"beq", " ", "x1", ",", "x2", ",", "4", "0", "9", "6">>),
     Text(<<"bne", " ", "x1", ",", "x2", ",", "-", "4", "0", "9", "6">>),
     Text(<<"blt", " ", "x1", ",", "x2", ",", "4", "0", "9", "4">>),
     Text(<<"bgeu", " ", "x1", ",", "x2", ",", "foo">>),
     Text(<<"jal", " ", "x1", ",", "1", "0", "4", "8", "5", "7", "6">>),
     Text(<<"j", " ", "-", "1", "0", "4", "8", "5", "7", "6">>),
     Text(<<"foo", ":", " ", "beq", " ", "x1", ",", "x2", ",", "F", "o", "o">>)>>}

Programs == SeqsUpTo(LinePool, MaxLines) \cup JumpPrograms \cup ExamplePrograms

FrontEndPool ==
  {Text(<<"loop", ":">>),
   Text(<<"add", " ", "x2", ",", "x2", ",", "x3">>),
   Text(<<"bne", " ", "x1", ",", "x2", ",", "loop">>),
   Text(<<"add", " ", "x1", ",", "x99", ",", "x2">>)}

FrontEndPrograms == SeqsUpTo(FrontEndPool, MaxLines)

GuiFlows ==
  {"gui_assemble", "gui_export_hex", "gui_export_verilog", "gui_export_mem"}

FrontEndFlows == {"main", "run"} \cup GuiFlows

\* the sources of a caller that uses one instance for two assemble calls
ReusePool ==
  {Text(<<"l", ":", " ", "nop">>),
   Text(<<"j", " ", "l">>),
   Text(<<"add", " ", "x1", ",", "x99", ",", "x2">>)}

ReusePrograms == SeqsUpTo(ReusePool, MaxLines - 1)

\* single instructions: every register number, the edges of every immediate
\* width
Dec(v) == IF v < 0 THEN <<"-">> \o ToDec(0 - v) ELSE ToDec(v)

X(r) == <<"x">> \o ToDec(r)

RegPairs == {<<r, 31 - r>> : r \in 0..31} \cup {<<1, 0>>, <<5, 0>>, <<0, 0>>}

RegFew == {<<1, 0>>, <<5, 31>>, <<31, 2>>}

RegTriples == {<<r, 31 - r, (7 * r + 3) % 32>> : r \in 0..31}

Imm12 == {0 - 2049, 0 - 2048, 0 - 1, 0, 7, 2047, 2048}

Shamts == {0 - 1, 0, 1, 31, 32}

Imm13 == {0 - 4097, 0 - 4096, 0 - 2, 0, 2, 4095, 4096}

Imm20 == {0 - 1, 0, 1, 1048575, 1048576}

Imm21 == {0 - 1048577, 0 - 1048576, 0 - 2, 0, 2, 1048575, 1048576}

Line3(m, a, b, c) ==
  Chars(m) \o <<" ">> \o a \o <<",", " ">> \o b \o <<",", " ">> \o c

Line2(m, a, b) == Chars(m) \o <<" ">> \o a \o <<",", " ">> \o b

MemOperand(v, base) == Dec(v) \o <<"(">> \o X(base) \o <<")">>

EncLines ==
  {Line3(m, X(p[1]), X(p[2]), Dec(v)) :
      m \in IAluNames \cup {"jalr"}, p \in RegPairs, v \in Imm12}
  \cup {Line3(m, X(p[1]), X(p[2]), Dec(v)) :
      m \in ShiftNames, p \in RegFew, v \in Shamts}
  \cup {Line2(m, X(p[1]), MemOperand(v, p[2])) :
      m \in LoadNames \cup StoreNames \cup {"jalr"}, p \in RegFew, v \in Imm12}
  \cup {Line3(m, X(t[1]), X(t[2]), X(t[3])) : m \in RTypeNames, t \in RegTriples}
  \cup {Line3(m, X(p[1]), X(p[2]), Dec(v)) :
      m \in BranchNames, p \in RegFew, v \in Imm13}
  \cup {Line2(m, X(r), Dec(v)) : m \in {"lui", "auipc"}, r \in {0, 5, 31}, v \in Imm20}
  \cup {Line2("jal", X(r), Dec(v)) : r \in {0, 1, 31}, v \in Imm21}
  \cup {Chars("j") \o <<" ">> \o Dec(v) : v \in Imm21}
  \cup {Text(<<"halt">>), Text(<<"ecall">>), Text(<<"H", "A", "L", "T", " ", "x99">>),
        Text(<<"ecall", " ", "x1", ",", "foo">>), Text(<<"nop">>)}

\* the four immediates at the edges of addi's range, in one program
EncPrograms ==
  {<<Line3("addi", X(1), X(0), Dec(2048)),
     Line3("addi", X(1), X(0), Dec(0 - 2049)),
     Line3("addi", X(1), X(0), Dec(2047)),
     Line3("addi", X(1), X(0), Dec(0 - 2048))>>}

EncSources == EncLines \cup {JoinLines(p) : p \in EncPrograms}

\* register operands: the names of the 32 registers of the RISC-V calling
\* convention, in lower case, in upper case and capitalised, and tokens that
\* name no register
AbiNames(r) ==
  CASE r = 0 -> {<<"z", "e", "r", "o">>}
    [] r = 1 -> {<<"r", "a">>}
    [] r = 2 -> {<<"s", "p">>}
    [] r = 3 -> {<<"g", "p">>}
    [] r = 4 -> {<<"t", "p">>}
    [] r \in 5..7 -> {<<"t">> \o ToDec(r - 5)}
    [] r = 8 -> {<<"s", "0">>, <<"f", "p">>}
    [] r = 9 -> {<<"s", "1">>}
    [] r \in 10..17 -> {<<"a">> \o ToDec(r - 10)}
    [] r \in 18..27 -> {<<"s">> \o ToDec(r - 16)}
    [] r \in 28..31 -> {<<"t">> \o ToDec(r - 25)}

RegNames(r) == {X(r)} \cup AbiNames(r)

upperChar(c) ==
  LET i == IndexIn(c, LowerLetters) IN IF i = 0 THEN c ELSE UpperLetters[i]

Upper(cs) == [i \in 1..Len(cs) |-> upperChar(cs[i])]

Capitalised(cs) == <<upperChar(cs[1])>> \o Tail(cs)

NoRegister ==
  {<<"x", "3", "2">>, <<"x", "0", "1">>, <<"x">>, <<"r", "1">>,
   <<"s", "1", "2">>, <<"t", "7">>, <<"a", "8">>, <<"p", "c">>,
   <<"z", "e", "r", "0">>, <<"x", "1", "x">>, <<"1">>, <<"f", "0">>,
   <<"X", "X", "1">>, <<"s", "_", "0">>}

RegTokens ==
  UNION {{n, Upper(n), Capitalised(n)} :
            n \in UNION {RegNames(r) : r \in 0..31}}
  \cup NoRegister

RegLines ==
  {Line3("add", t, X(1), X(2)) : t \in RegTokens}
  \cup {Line3("add", X(1), t, X(2)) : t \in RegTokens}
  \cup {Line3("add", X(1), X(2), t) : t \in RegTokens}
  \cup {Line2("lw", t, <<"4", "(">> \o X(2) \o <<")">>) : t \in RegTokens}
  \cup {Line2("lw", X(1), <<"4", "(">> \o t \o <<")">>) : t \in RegTokens}

\* pseudo-instructions: alone, at the edges of the immediate ranges, and
\* 'j' among labels
PseudoLines ==
  {Text(<<"nop">>), Text(<<"N", "O", "P">>), Text(<<" ", "nop", " ", "#", "x1">>)}
  \cup {Line2("li", X(r), Dec(v)) : r \in {0, 5, 31}, v \in Imm12}
  \cup {Line2("li", <<"a", "0">>, v) :
          v \in {<<"0", "x", "7", "f", "f">>, <<"0", "x", "8", "0", "0">>,
                 <<"-", "0", "x", "8", "0", "0">>, <<"0", "b", "1", "0">>}}
  \cup {Line2("li", X(99), Dec(1)), Line2("LI", X(1), Dec(1))}
  \cup {Line2("mv", X(p[1]), X(p[2])) : p \in RegPairs}
  \cup {Line2("mv", X(1), X(99)), Line2("mv", <<"s", "p">>, <<"F", "P">>)}
  \cup {Chars("j") \o <<" ">> \o Dec(v) : v \in Imm21}

PseudoJumps ==
  {Text(<<"j", " ", "loop">>), Text(<<"j", " ", "end">>),
   Text(<<"J", "\t", "foo">>), Text(<<"foo", ":", "j", " ", "foo">>),
   Text(<<"j", " ", "-", "8">>)}

PseudoPrograms ==
  LET places == {<<p, i>> \in (SeqsUpTo(JumpContext, MaxLines - 1) \ {<<>>})
                                \X (1..MaxLines) : i <= Len(p) + 1}
  IN  {InsertAt(pi[1], pi[2], l) : pi \in places, l \in PseudoJumps}
      \cup {<<l>> : l \in PseudoLines}

\* offsets of the split immediates: both edges of each range, every single
\* bit, every single bit cleared, alternating bits
SplitOffsets(bits, low) ==
  {0 - 2 ^ (bits - 1), 2 ^ (bits - 1) - 2 ^ low, 0, 0 - 2 ^ low}
  \cup {2 ^ k : k \in low..(bits - 2)}
  \cup {0 - 2 ^ k : k \in low..(bits - 2)}
  \cup {2 ^ (bits - 1) - 2 ^ low - 2 ^ k : k \in low..(bits - 2)}
  \cup {1364, 0 - 1366, 682, 0 - 684}

SplitLines ==
  {Line3(m, X(p[1]), X(p[2]), Dec(v)) :
      m \in BranchNames, p \in RegFew, v \in SplitOffsets(13, 1)}
  \cup {Line2("jal", X(r), Dec(v)) :
      r \in {0, 1, 31}, v \in SplitOffsets(21, 1) \cup {349524, 0 - 349526}}
  \cup {Line2(m, X(p[1]), MemOperand(v, p[2])) :
      m \in StoreNames, p \in RegFew, v \in SplitOffsets(12, 0)}

\* branches and jumps to labels before and after them
SplitPool ==
  {Text(<<"loop", ":", " ", "beq", " ", "x1", ",", "x2", ",", "end">>),
   Text(<<"end", ":", " ", "jal", " ", "x5", ",", "loop">>),
   Text(<<"bgeu", " ", "x31", ",", "x2", ",", "loop">>),
   Text(<<"sw", " ", "x5", ",", "-", "4", "(", "x31", ")">>)}

SplitPrograms ==
  SeqsUpTo(SplitPool, MaxLines) \cup {<<l>> : l \in SplitLines}

\* the crypto instructions on every register, and every base mnemonic with
\* all bits of its operands clear and set
CryptoLines ==
  {Line3(m, X(t[1]), X(t[2]), X(t[3])) :
      m \in {"rotl", "rotr"}, t \in RegTriples \cup {<<5, 5, 5>>}}
  \cup {Chars("rng") \o <<" ">> \o X(r) : r \in 0..31}
  \cup {Line3("rng", X(5), X(5), X(5)), Line3("rng", X(1), X(31), X(31)),
        Text(<<"R", "N", "G", " ", "x7">>), Text(<<"rng">>),
        Line3("rotr", X(1), X(99), X(2)),
        Text(<<"R", "o", "t", "L", " ", "x1", ",", "x2", ",", "x3">>)}

BaseLines ==
  {Line3(m, X(r), X(r), X(r)) : m \in RTypeNames, r \in {0, 31}}
  \cup {Line3(m, X(r), X(r), Dec(v)) :
          m \in IAluNames \cup {"jalr"}, r \in {0, 31}, v \in {0, 0 - 1}}
  \cup {Line3(m, X(r), X(r), Dec(v)) :
          m \in ShiftNames, r \in {0, 31}, v \in {0, 31}}
  \cup {Line2(m, X(r), MemOperand(v, r)) :
          m \in LoadNames \cup StoreNames, r \in {0, 31}, v \in {0, 0 - 1}}
  \cup {Line3(m, X(r), X(r), Dec(v)) :
          m \in BranchNames, r \in {0, 31}, v \in {0, 0 - 2}}
  \cup {Line2(m, X(r), Dec(v)) :
          m \in {"lui", "auipc"}, r \in {0, 31}, v \in {0, 1048575}}
  \cup {Line2("jal", X(r), Dec(v)) : r \in {0, 31}, v \in {0, 0 - 2}}
  \cup {Text(<<"halt">>), Text(<<"ecall">>), Text(<<"nop">>),
        Text(<<"j", " ", "-", "2">>), Text(<<"mv", " ", "x31", ",", "x31">>),
        Text(<<"li", " ", "x31", ",", "-", "1">>)}

\* lines that are no instruction, malformed labels, missing operands
OddPool ==
  {Text(<<":">>),
   Text(<<"a", ":", "b", ":", "nop">>),
   Text(<<"a", ":", ":">>),
   Text(<<",", ",", ",">>),
   Text(<<"#">>),
   Text(<<" ", ";", " ", ",">>),
   Text(<<"add", " ", "x1">>),
   Text(<<"lw", " ", "x1">>),
   Text(<<"j">>),
   Text(<<"nop">>),
   Text(<<"add", " ", "x1", ",", "x99", ",", "x2">>),
   Text(<<"bne", " ", "x1", ",", "x2", ",", "a">>),
   Text(<<"add", " ", "x1", ":", " ", "nop">>)}

OddPrograms == SeqsUpTo(OddPool, MaxLines - 1)

\* a branch or a jump at one address and its label at another: distances at
\* and beyond the edges of the 13-bit and of the 21-bit offset
FarLabel == <<"f", "a", "r">>

Distances ==
  {8, 2044, 4092, 4096, 4100, 6148, 8192, 12284, 1048572, 1048576, 1048580,
   1398100, 2097152, 3145724}

\* <<address of the instruction, address of the label>>
AddressPairs ==
  {<<0, d>> : d \in Distances} \cup {<<4, d + 4>> : d \in Distances}
  \cup {<<d, 0>> : d \in Distances} \cup {<<d + 8, 8>> : d \in Distances}
  \cup {<<d + 4, 0>> : d \in {4096, 1048576}}

TargetLines(tgt) ==
  {Line3(m, X(5), X(31), tgt) : m \in BranchNames}
  \cup {Line2("jal", X(r), tgt) : r \in {0, 1}}
  \cup {Chars("j") \o <<" ">> \o tgt}

\* the calls second_pass makes for such an instruction: its text, its
\* address, and the label table of pass 1; and the calls for the same
\* instruction with the distance written as a literal
ProbeInputs ==
  {[line |-> l, current_addr |-> a[1],
    labels |-> [n \in {Str(FarLabel)} |-> a[2]]] :
      l \in TargetLines(FarLabel), a \in AddressPairs}
  \cup UNION {{[line |-> l, current_addr |-> a[1], labels |-> NoLabels] :
                 l \in TargetLines(Dec(a[2] - a[1]))} : a \in AddressPairs}

\* lines that encode and lines that fail, with a label and a jump to it
PassesPool ==
  {Text(<<"addi", " ", "x1", ",", " ", "x0", ",", " ", "5">>),
   Text(<<"add", " ", "x1", ",", "x99", ",", "x2">>),
   Text(<<"loop", ":", " ", "sub", " ", "x2", ",", "x2", ",", "x1">>),
   Text(<<"bne", " ", "x1", ",", "x2", ",", "loop">>),
   Text(<<"lw", " ", "x5", ",", "x2">>),
   Text(<<"end", ":">>)}

PassesPrograms == SeqsUpTo(PassesPool, MaxLines)

\* programs of n times 'nop', around the capacity of the instruction memory
MaxWords == 65

NopSource(n) ==
  [i \in 1..(4 * n - 1) |->
     IF i % 4 = 0 THEN "\n" ELSE <<"n", "o", "p">>[i % 4]]

LongSizes == {0, 3, 59, 60, 63, 64, MaxWords}

LongSources ==
  {NopSource(n) : n \in LongSizes}
  \cup {Text(<<"add", " ", "x1", ",", "x99", ",", "x2">>)}

(***************************************************************************)
(* Initial states                                                          *)
(***************************************************************************)
InitInstance ==
  /\ pc = "ready"
  /\ lines = <<>>
  /\ line_num = 0
  /\ idx = 0
  /\ labels = NewAssembler.labels
  /\ instructions = NewAssembler.instructions
  /\ machine_code = NewAssembler.machine_code
  /\ current_address = NewAssembler.current_address
  /\ errors = NewAssembler.errors
  /\ outputs = <<>>

\* the callers that construct one instance
NoTwin == [pc |-> "none"]

\* the callers that leave assemble_instruction to second_pass
NoProbe == [pc |-> "none"]


\* a front end has read its file, or the text widget (whose text ends with a
\* newline), and has constructed the assembler
Init ==
  /\ flow \in FrontEndFlows
  /\ \E p \in FrontEndPrograms :
        source = IF flow \in GuiFlows THEN JoinLines(p) \o <<"\n">>
                 ELSE JoinLines(p)
  /\ InitInstance
  /\ twin = NoTwin
  /\ probe = NoProbe

\* a caller of assemble, with a program
InitAsm ==
  /\ flow = "call"
  /\ source \in {JoinLines(p) : p \in Programs}
  /\ InitInstance
  /\ twin = NoTwin
  /\ probe = NoProbe

\* a caller of assemble, with one instruction
InitEnc ==
  /\ flow = "call"
  /\ source \in EncSources
  /\ InitInstance
  /\ twin = NoTwin
  /\ probe = NoProbe

\* a caller that keeps its instance after assemble has returned
InitReuse ==
  /\ flow = "call"
  /\ source \in {JoinLines(p) : p \in ReusePrograms}
  /\ InitInstance
  /\ twin = NoTwin
  /\ probe = NoProbe

\* a caller of assemble, with one instruction on named registers
InitReg ==
  /\ flow = "call"
  /\ source \in RegLines
  /\ InitInstance
  /\ twin = NoTwin
  /\ probe = NoProbe

\* a caller that constructs two instances and hands the same source to both
InitTwin ==
  /\ flow = "call"
  /\ source \in {JoinLines(p) : p \in ReusePrograms}
  /\ InitInstance
  /\ twin = [pc |-> "ready", lines |-> <<>>, line_num |-> 0, idx |-> 0,
             self |-> NewAssembler]
  /\ probe = NoProbe

\* a caller of assemble, with a program that holds a pseudo-instruction
InitPseudo ==
  /\ flow = "call"
  /\ source \in {JoinLines(p) : p \in PseudoPrograms}
  /\ InitInstance
  /\ twin = NoTwin
  /\ probe = NoProbe

\* a caller of assemble, with branches, jumps and stores
InitSplit ==
  /\ flow = "call"
  /\ source \in {JoinLines(p) : p \in SplitPrograms}
  /\ InitInstance
  /\ twin = NoTwin
  /\ probe = NoProbe

\* a caller of assemble, with one crypto or one base instruction
InitCrypto ==
  /\ flow = "call"
  /\ source \in CryptoLines \cup BaseLines
  /\ InitInstance
  /\ twin = NoTwin
  /\ probe = NoProbe

\* a caller of assemble, with lines of every odd kind
InitOdd ==
  /\ flow = "call"
  /\ source \in {JoinLines(p) : p \in OddPrograms}
  /\ InitInstance
  /\ twin = NoTwin
  /\ probe = NoProbe

\* a front end with a long program
InitLong ==
  /\ flow \in FrontEndFlows
  /\ \E src \in LongSources :
        source = IF flow \in GuiFlows THEN src \o <<"\n">> ELSE src
  /\ InitInstance
  /\ twin = NoTwin
  /\ probe = NoProbe

\* a caller that runs the two passes itself, as assemble does before its exit
InitPasses ==
  /\ flow = "passes"
  /\ source \in {JoinLines(p) : p \in PassesPrograms}
  /\ InitInstance
  /\ twin = NoTwin
  /\ probe = NoProbe

\* a caller of assemble with branches, jumps, stores and immediates of every
\* format, or second_pass at an instruction whose label is far away
InitFar ==
  \/ /\ flow = "call"
     /\ source \in EncSources \cup {JoinLines(p) : p \in SplitPrograms}
     /\ InitInstance
     /\ twin = NoTwin
     /\ probe = NoProbe
  \/ /\ flow = "second_pass"
     /\ source = <<>>
     /\ pc = "assemble_instruction"
     /\ lines = <<>>
     /\ line_num = 0
     /\ idx = 0
     /\ labels = NewAssembler.labels
     /\ instructions = NewAssembler.instructions
     /\ machine_code = NewAssembler.machine_code
     /\ current_address = NewAssembler.current_address
     /\ errors = NewAssembler.errors
     /\ outputs = <<>>
     /\ twin = NoTwin
     /\ \E in \in ProbeInputs :
          probe = [pc |-> "called", line |-> in.line,
                   current_addr |-> in.current_addr, labels |-> in.labels,
                   result |-> Raise("")]

(***************************************************************************)
(* RISCVAssembler.assemble, one loop iteration per step                    *)
(***************************************************************************)
Assemble ==
  /\ pc = "ready"
  /\ lines' = splitOn(source, "\n")
  /\ current_address' = 0
  /\ line_num' = 1
  /\ pc' = "first_pass"
  /\ UNCHANGED <<twin, probe>>
  /\ UNCHANGED <<source, flow, idx, labels, instructions, machine_code,
                 errors, outputs>>

FirstPassLine ==
  /\ pc = "first_pass"
  /\ line_num <= Len(lines)
  /\ SetSelf(first_pass_line(Self, lines[line_num], line_num))
  /\ line_num' = line_num + 1
  /\ pc' = IF line_num = Len(lines) THEN "second_pass" ELSE "first_pass"
  /\ idx' = IF line_num = Len(lines) THEN 1 ELSE idx
  /\ UNCHANGED <<twin, probe>>
  /\ UNCHANGED <<source, flow, lines, outputs>>

SecondPassInstr ==
  /\ pc = "second_pass"
  /\ idx <= Len(instructions)
  /\ SetSelf(second_pass_instr(Self, instructions[idx]))
  /\ idx' = idx + 1
  /\ UNCHANGED <<twin, probe>>
  /\ UNCHANGED <<source, flow, pc, lines, line_num, outputs>>

\* "return self.machine_code"
AssembleReturn ==
  /\ pc = "second_pass"
  /\ idx > Len(instructions)
  /\ errors = <<>>
  /\ pc' = "returned"
  /\ UNCHANGED <<twin, probe>>
  /\ UNCHANGED <<source, flow, lines, line_num, idx, asm_vars, outputs>>

\* the diagnostics printed, and the words returned all the same
AssembleExit_Returns ==
  /\ pc = "second_pass"
  /\ idx > Len(instructions)
  /\ errors # <<>>
  /\ pc' = "returned"
  /\ UNCHANGED <<twin, probe>>
  /\ UNCHANGED <<source, flow, lines, line_num, idx, asm_vars, outputs>>

\* "if self.errors: ... sys.exit(1)": SystemExit is raised in the caller
AssembleExit ==
  /\ pc = "second_pass"
  /\ idx > Len(instructions)
  /\ errors # <<>>
  /\ pc' = "SystemExit"
  /\ UNCHANGED <<twin, probe>>
  /\ UNCHANGED <<source, flow, lines, line_num, idx, asm_vars, outputs>>

\* assemble called again on the instance whose first call has returned:
\* first_pass resets self.current_address and nothing else
AssembleAgain ==
  /\ pc = "returned" /\ flow = "call"
  /\ \E p \in ReusePrograms :
        /\ source' = JoinLines(p)
        /\ lines' = splitOn(JoinLines(p), "\n")
  /\ current_address' = 0
  /\ line_num' = 1
  /\ pc' = "first_pass"
  /\ flow' = "call_again"
  /\ UNCHANGED <<twin, probe>>
  /\ UNCHANGED <<idx, labels, instructions, machine_code, errors, outputs>>

\* the second instance: its fields are its own (__init__ binds all five to
\* the instance), and the module's tables are only read
TwinSelf_SharedLabels == [twin.self EXCEPT !.labels = labels]

TwinSelf == twin.self

\* pass 1 and pass 2 on the second instance, one loop iteration per step, in
\* any order with the steps of the first
TwinAssemble ==
  /\ twin.pc = "ready"
  /\ twin' = [twin EXCEPT !.pc = "first_pass",
                          !.lines = splitOn(source, "\n"),
                          !.line_num = 1,
                          !.self = [TwinSelf EXCEPT !.current_address = 0]]
  /\ UNCHANGED <<source, flow, pc, lines, line_num, idx, asm_vars, outputs,
                 probe>>

TwinFirstPassLine ==
  /\ twin.pc = "first_pass"
  /\ twin.line_num <= Len(twin.lines)
  /\ twin' = [twin EXCEPT
       !.self = first_pass_line(TwinSelf, twin.lines[twin.line_num],
                                twin.line_num),
       !.line_num = @ + 1,
       !.pc = IF twin.line_num = Len(twin.lines) THEN "second_pass"
              ELSE "first_pass",
       !.idx = IF twin.line_num = Len(twin.lines) THEN 1 ELSE @]
  /\ UNCHANGED <<source, flow, pc, lines, line_num, idx, asm_vars, outputs,
                 probe>>

TwinSecondPassInstr ==
  /\ twin.pc = "second_pass"
  /\ twin.idx <= Len(twin.self.instructions)
  /\ twin' = [twin EXCEPT
       !.self = second_pass_instr(TwinSelf, twin.self.instructions[twin.idx]),
       !.idx = @ + 1]
  /\ UNCHANGED <<source, flow, pc, lines, line_num, idx, asm_vars, outputs,
                 probe>>

(***************************************************************************)
(* Output generators: the text they build, as its rows and their fields    *)
(***************************************************************************)
HexUpperChars ==
  <<"0","1","2","3","4","5","6","7","8","9","A","B","C","D","E","F">>

\* f"{v:0{width}X}" of an integer 0 <= v < 2^28
FormatHex(v, width) ==
  LET need == CHOOSE d \in 1..7 : v < 16 ^ d /\ (d = 1 \/ v >= 16 ^ (d - 1))
      n    == IF need > width THEN need ELSE width
  IN  [i \in 1..n |-> HexUpperChars[((v \div (16 ^ (n - i))) % 16) + 1]]

\* f"{code:08X}" of a word
FormatWord(code) == FormatHex(code[1], 4) \o FormatHex(code[2], 4)

\* zip(self.machine_code, self.instructions): as long as the shorter one
\* each word paired with the instruction it was encoded from
Zip_BySource(st) ==
  LET good == {j \in 1..Len(st.instructions) :
                 \A e \in 1..Len(st.errors) :
                   st.errors[e].line_num # st.instructions[j][3]}
  IN  [k \in 1..(IF Len(st.machine_code) < Cardinality(good)
                   THEN Len(st.machine_code) ELSE Cardinality(good)) |->
         <<st.machine_code[k], st.instructions[NthOf(good, k)]>>]

Zip(st) ==
  [k \in 1..(IF Len(st.machine_code) < Len(st.instructions)
              THEN Len(st.machine_code) ELSE Len(st.instructions)) |->
     <<st.machine_code[k], st.instructions[k]>>]

\* "0x{addr:08X}: 0x{code:08X}  // {asm}" for each pair
to_hex(st) ==
  [total |-> ToDec(Len(st.machine_code)),
   rows  |-> [k \in 1..Len(Zip(st)) |->
                [addr |-> FormatHex(Zip(st)[k][2][1], 8),
                 code |-> FormatWord(Zip(st)[k][1]),
                 asm  |-> Zip(st)[k][2][2]]]]

\* the size of I_MEM_BLOCK and the number of entries filled behind a program
Capacity == 64

FillerCount == 5

\* "range(len(self.machine_code), min(len(self.machine_code) + 5, 64))"
FillerIndices(n) ==
  {i \in 0..(Capacity + FillerCount) :
     i >= n /\ i < (IF n + FillerCount < Capacity THEN n + FillerCount
                    ELSE Capacity)}

\* "I_MEM_BLOCK[{i}]  = 32'h{code:08X};  // 0x{addr:02X}: {asm}" for each
\* pair, then "I_MEM_BLOCK[{i}] = 32'h00000013;  // nop" for the filler
to_verilog(st) ==
  [rows   |-> [k \in 1..Len(Zip(st)) |->
                 [index |-> ToDec(k - 1),
                  code  |-> FormatWord(Zip(st)[k][1]),
                  addr  |-> FormatHex(Zip(st)[k][2][1], 2),
                  asm   |-> Zip(st)[k][2][2]]],
   filler |-> [j \in 1..Cardinality(FillerIndices(Len(st.machine_code))) |->
                 [index |-> ToDec(NthOf(FillerIndices(Len(st.machine_code)), j)),
                  code  |-> <<"0", "0", "0", "0", "0", "0", "1", "3">>]]]

\* "{code:08X}" for each word
to_mem(st) ==
  [rows |-> [k \in 1..Len(st.machine_code) |->
               [code |-> FormatWord(st.machine_code[k])]]]

\* "0x{addr:04X}     0x{code:08X}     {asm}" for each pair, the total, the
\* labels: print_listing, and generate_listing of the GUI
print_listing(st) ==
  [rows   |-> [k \in 1..Len(Zip(st)) |->
                 [addr |-> FormatHex(Zip(st)[k][2][1], 4),
                  code |-> FormatWord(Zip(st)[k][1]),
                  asm  |-> Zip(st)[k][2][2]]],
   total  |-> ToDec(Len(st.machine_code)),
   labels |-> {<<n, FormatHex(st.labels[n], 4)>> : n \in DOMAIN st.labels}]

Serialize(serializer, st) ==
  CASE serializer = "to_hex" -> to_hex(st)
    [] serializer = "to_verilog" -> to_verilog(st)
    [] serializer = "to_mem" -> to_mem(st)
    [] serializer \in {"print_listing", "generate_listing"} ->
         print_listing(st)

(***************************************************************************)
(* The front ends, after assemble                                          *)
(***************************************************************************)
Out(serializer, sink) ==
  [serializer |-> serializer, sink |-> sink,
   text |-> Serialize(serializer, Self)]

\* riscv_assembler.main: -l, and then --verilog, --mem, -o, or the default
MainOutput ==
  /\ pc = "returned" /\ flow = "main"
  /\ \E listing \in BOOLEAN, opt \in {"verilog", "mem", "output", "default"} :
        outputs' = outputs
          \o (IF listing THEN <<Out("print_listing", "stdout")>> ELSE <<>>)
          \o (IF opt = "verilog" THEN <<Out("to_verilog", "stdout")>>
              ELSE IF opt = "mem" THEN <<Out("to_mem", "stdout")>>
              ELSE IF opt = "output" THEN <<Out("to_hex", "file")>>
              ELSE <<Out("print_listing", "stdout"),
                     Out("to_hex", "stdout")>>)
  /\ pc' = "done"
  /\ UNCHANGED <<twin, probe>>
  /\ UNCHANGED <<source, flow, lines, line_num, idx, asm_vars>>

\* run.py: the listing and the three files
RunOutputs ==
  /\ pc = "returned" /\ flow = "run"
  /\ outputs' = outputs \o <<Out("print_listing", "stdout"),
                            Out("to_hex", "file"), Out("to_mem", "file"),
                            Out("to_verilog", "file")>>
  /\ pc' = "done"
  /\ UNCHANGED <<twin, probe>>
  /\ UNCHANGED <<source, flow, lines, line_num, idx, asm_vars>>

\* RISCVAssemblerGUI.assemble: "if asm.errors: ... return", else the views
GuiAssemble ==
  /\ pc = "returned" /\ flow = "gui_assemble"
  /\ outputs' = IF errors # <<>> THEN outputs
                ELSE outputs \o <<Out("generate_listing", "widget"),
                                  Out("to_hex", "widget"),
                                  Out("to_verilog", "widget")>>
  /\ pc' = "done"
  /\ UNCHANGED <<twin, probe>>
  /\ UNCHANGED <<source, flow, lines, line_num, idx, asm_vars>>

\* export_hex, export_verilog, export_mem: the user may cancel the dialog
GuiExport ==
  /\ pc = "returned"
  /\ flow \in {"gui_export_hex", "gui_export_verilog", "gui_export_mem"}
  /\ \E filename \in BOOLEAN :
        outputs' =
          IF errors # <<>> \/ ~filename THEN outputs
          ELSE Append(outputs,
                 Out(IF flow = "gui_export_hex" THEN "to_hex"
                     ELSE IF flow = "gui_export_verilog" THEN "to_verilog"
                     ELSE "to_mem", "file"))
  /\ pc' = "done"
  /\ UNCHANGED <<twin, probe>>
  /\ UNCHANGED <<source, flow, lines, line_num, idx, asm_vars>>

\* SystemExit is no Exception: no "except Exception" of a front end catches
\* it, and the process ends with status 1
Terminate ==
  /\ pc = "SystemExit" /\ flow \in FrontEndFlows
  /\ pc' = "terminated"
  /\ UNCHANGED <<twin, probe>>
  /\ UNCHANGED <<source, flow, lines, line_num, idx, asm_vars, outputs>>

Serializers ==
  {"to_hex", "to_verilog", "to_mem", "print_listing", "generate_listing"}

\* a caller that has run first_pass and second_pass itself calls a serializer
DirectOutput ==
  /\ flow = "passes"
  /\ pc = "second_pass"
  /\ idx > Len(instructions)
  /\ \E serializer \in Serializers :
        outputs' = Append(outputs, Out(serializer, "caller"))
  /\ pc' = "done"
  /\ UNCHANGED <<twin, probe>>
  /\ UNCHANGED <<source, flow, lines, line_num, idx, asm_vars>>

\* "code = self.assemble_instruction(instr, addr)" of second_pass
AssembleInstruction ==
  /\ probe.pc = "called"
  /\ probe' = [probe EXCEPT
       !.pc = "returned",
       !.result = assemble_instruction(probe.line, probe.current_addr,
                                       probe.labels)]
  /\ UNCHANGED <<source, flow, pc, lines, line_num, idx, asm_vars, outputs,
                 twin>>

NextAsm ==
  \/ Assemble
  \/ FirstPassLine
  \/ SecondPassInstr
  \/ AssembleReturn
  \/ AssembleExit

Next ==
  \/ NextAsm
  \/ MainOutput
  \/ RunOutputs
  \/ GuiAssemble
  \/ GuiExport
  \/ Terminate

Spec == Init /\ [][Next]_vars

SpecAsm == InitAsm /\ [][NextAsm]_vars

SpecEnc == InitEnc /\ [][NextAsm]_vars

SpecReg == InitReg /\ [][NextAsm]_vars

SpecPseudo == InitPseudo /\ [][NextAsm]_vars

SpecSplit == InitSplit /\ [][NextAsm]_vars

SpecCrypto == InitCrypto /\ [][NextAsm]_vars

SpecOdd == InitOdd /\ [][NextAsm]_vars

SpecLong == InitLong /\ [][Next]_vars

NextFar ==
  \/ NextAsm
  \/ AssembleInstruction

SpecFar == InitFar /\ [][NextFar]_vars

NextPasses ==
  \/ Assemble
  \/ FirstPassLine
  \/ SecondPassInstr
  \/ DirectOutput

SpecPasses == InitPasses /\ [][NextPasses]_vars

NextReuse ==
  \/ NextAsm
  \/ AssembleAgain

SpecReuse == InitReuse /\ [][NextReuse]_vars

NextTwin ==
  \/ Assemble
  \/ FirstPassLine
  \/ SecondPassInstr
  \/ TwinAssemble
  \/ TwinFirstPassLine
  \/ TwinSecondPassInstr

SpecTwin == InitTwin /\ [][NextTwin]_vars

(***************************************************************************)
(* Reading the state: which instruction failed, which word is whose        *)
(***************************************************************************)
\* assemble has run both passes to their end
PassesDone ==
  \/ pc \in {"returned", "SystemExit", "done", "terminated"}
  \/ pc = "second_pass" /\ idx > Len(instructions)

\* pass 1 has gone through every line
FirstPassDone == pc \notin {"ready", "first_pass"}

\* the k-th pending instruction has a diagnostic (one instruction per line)
Failed(k) ==
  \E e \in 1..Len(errors) : errors[e].line_num = instructions[k][3]

\* the word of the k-th pending instruction, when it has not failed
WordOf(k) == machine_code[k - Cardinality({j \in 1..(k - 1) : Failed(j)})]

Tokens(text) == split(replace(text, ",", " "))

\* the instruction text of a source line: what is left of it without its
\* comment and without its label
InstrText(raw) ==
  LET line  == StripComment(raw)
      colon == FirstIn(line, {":"})
  IN  IF colon = 0 THEN line ELSE strip(SubSeq(line, colon + 1, Len(line)))

\* the source line without its instruction: the label and its colon, if any
LabelPart(raw) ==
  LET line  == StripComment(raw)
      colon == FirstIn(line, {":"})
  IN  SubSeq(line, 1, colon)

IsInstrLine(raw) == InstrText(raw) # <<>>

\* the address an instruction on line n has: 4 per instruction line before it
AddressOfLine(n) == 4 * Cardinality({j \in 1..(n - 1) : IsInstrLine(lines[j])})

\* the 13-bit branch offset and the 21-bit jump offset a word holds
Signed(v, bits) == IF v >= Pow2(bits - 1) THEN v - Pow2(bits) ELSE v

DecodeB(w) ==
  Signed(Bits(w, 31, 31) * 4096 + Bits(w, 7, 7) * 2048
         + Bits(w, 30, 25) * 32 + Bits(w, 11, 8) * 2, 13)

DecodeJ(w) ==
  Signed(Bits(w, 31, 31) * 1048576 + Bits(w, 19, 12) * 4096
         + Bits(w, 20, 20) * 2048 + Bits(w, 30, 21) * 2, 21)

(***************************************************************************)
(* C1: assemble(source) returns normally to its caller for every source    *)
(* text, with the words and the diagnostics available to the caller; it    *)
(* never raises and never terminates the process once diagnostics have     *)
(* been recorded.                                                          *)
(* The code: with a diagnostic recorded, assemble prints the diagnostics   *)
(* and calls sys.exit(1).                                                  *)
(***************************************************************************)
C1_AssembleReturnsWithDiagnostics ==
  errors # <<>> => pc \notin {"SystemExit", "terminated"}

(***************************************************************************)
(* C2: per-line failure isolation. When exactly one instruction line of    *)
(* the source is invalid, then after both passes there is exactly one      *)
(* diagnostic, it carries that line's 1-based number, and the words are    *)
(* those of the other instructions, in source order, each the word the     *)
(* instruction gets when the invalid instruction is replaced by a valid    *)
(* one (nop).                                                              *)
(***************************************************************************)
\* the lines whose instruction does not encode, with the final label table
InvalidLines ==
  {n \in 1..Len(lines) :
     /\ IsInstrLine(lines[n])
     /\ ~assemble_instruction(InstrText(lines[n]), AddressOfLine(n),
                              labels).ok}

\* both passes over the source with line n's instruction replaced by nop
RunWithNopAt(n) ==
  second_pass(first_pass(NewAssembler,
     [lines EXCEPT ![n] = LabelPart(lines[n]) \o <<" ", "n", "o", "p">>]))

WithoutAt(seq, k) == SubSeq(seq, 1, k - 1) \o SubSeq(seq, k + 1, Len(seq))

C2_FailureIsolation ==
  (PassesDone /\ Cardinality(InvalidLines) = 1) =>
    LET n   == CHOOSE m \in InvalidLines : TRUE
        k   == 1 + Cardinality({j \in 1..(n - 1) : IsInstrLine(lines[j])})
        ref == RunWithNopAt(n)
    IN  /\ Len(errors) = 1
        /\ errors[1].line_num = n
        /\ ref.errors = <<>>
        /\ Len(ref.machine_code) = Len(instructions)
        /\ machine_code = WithoutAt(ref.machine_code, k)

\* the five-line program with the unknown register on line 3, assembled
C2_Witness ==
  /\ PassesDone
  /\ Len(lines) = 5
  /\ Len(instructions) = 5
  /\ Len(errors) = 1
  /\ errors[1].line_num = 3
  /\ errors[1].msg = "Unknown register"
  /\ Len(machine_code) = 4
  /\ InvalidLines = {3}

(***************************************************************************)
(* C3: for every branch, jal and j instruction whose target operand names  *)
(* a label defined anywhere in the source, the encoded offset is the       *)
(* label's address minus the instruction's address, also when the name     *)
(* reads as a number; an operand that names no label is parsed as a signed *)
(* literal of 13 bits (branches) or 21 bits (jal, j).                      *)
(***************************************************************************)
C3_LabelOffsets ==
  PassesDone =>
    \A k \in 1..Len(instructions) :
      LET parts == Tokens(instructions[k][2])
          mn    == IF parts = <<>> THEN "" ELSE Str(lower(parts[1]))
          isB   == /\ mn \in {"beq", "bne", "blt", "bge", "bltu", "bgeu"}
                   /\ Len(parts) >= 4
                   /\ parse_register(parts[2]).ok
                   /\ parse_register(parts[3]).ok
          isJal == mn = "jal" /\ Len(parts) >= 3 /\ parse_register(parts[2]).ok
          isJ   == mn = "j" /\ Len(parts) >= 2
          tgt   == IF isB THEN parts[4] ELSE IF isJal THEN parts[3]
                   ELSE parts[2]
          bits  == IF isB THEN 13 ELSE 21
          held  == IF isB THEN DecodeB(WordOf(k)) ELSE DecodeJ(WordOf(k))
          lit   == parse_immediate(tgt, bits, TRUE)
      IN  (isB \/ isJal \/ isJ) =>
            IF Str(tgt) \in DOMAIN labels
              THEN /\ ~Failed(k)
                   /\ held = labels[Str(tgt)] - instructions[k][1]
              ELSE /\ Failed(k) = ~lit.ok
                   /\ lit.ok =>
                        held = Signed(lit.v, bits) - (Signed(lit.v, bits) % 2)

\* a backward branch to the label named "8", and a forward branch or jump to
\* a label, both encoded
C3_Witness ==
  /\ PassesDone
  /\ \E k \in 1..Len(instructions) :
        /\ Tokens(instructions[k][2]) = <<<<"b", "e", "q">>, <<"x", "0">>,
                                          <<"x", "0">>, <<"8">>>>
        /\ "8" \in DOMAIN labels
        /\ labels["8"] < instructions[k][1]
        /\ ~Failed(k)
        /\ DecodeB(WordOf(k)) = 0 - 4

(***************************************************************************)
(* Reading an instruction's operands off its text: registers written xN,   *)
(* immediates written in decimal                                           *)
(***************************************************************************)
RECURSIVE NatOf(_)
NatOf(cs) ==
  IF cs = <<>> THEN 0
  ELSE 10 * NatOf(SubSeq(cs, 1, Len(cs) - 1))
       + (CHOOSE d \in 0..9 : DigitChars[d + 1] = cs[Len(cs)])

IsNat(cs) ==
  /\ cs # <<>>
  /\ \A i \in 1..Len(cs) : cs[i] \in DecimalDigits
  /\ Len(cs) > 1 => cs[1] # "0"

IsDec(cs) == IsNat(cs) \/ (cs # <<>> /\ cs[1] = "-" /\ IsNat(Tail(cs)))

DecOf(cs) == IF cs[1] = "-" THEN 0 - NatOf(Tail(cs)) ELSE NatOf(cs)

IsX(cs) ==
  /\ Len(cs) >= 2
  /\ cs[1] = "x"
  /\ IsNat(Tail(cs))
  /\ NatOf(Tail(cs)) <= 31

XOf(cs) == NatOf(Tail(cs))

\* "imm(xN)"
IsMem(cs) ==
  LET open == FirstIn(cs, {"("})
  IN  /\ open > 1
      /\ cs[Len(cs)] = ")"
      /\ IsDec(SubSeq(cs, 1, open - 1))
      /\ IsX(SubSeq(cs, open + 1, Len(cs) - 1))

MemOff(cs) == DecOf(SubSeq(cs, 1, FirstIn(cs, {"("}) - 1))

MemBase(cs) == XOf(SubSeq(cs, FirstIn(cs, {"("}) + 1, Len(cs) - 1))

Operands(kind, mn, rd, rs1, rs2, v) ==
  [kind |-> kind, mn |-> mn, rd |-> rd, rs1 |-> rs1, rs2 |-> rs2, v |-> v]

\* the format an instruction text is written in, with its operands; "none"
\* for a text that is not of these well-formed shapes
Shape(text) ==
  LET parts  == Tokens(text)
      n      == Len(parts)
      mn     == IF n = 0 THEN "" ELSE Str(lower(parts[1]))
      reg(i) == i <= n /\ IsX(parts[i])
      dec(i) == i <= n /\ IsDec(parts[i])
      mem(i) == i <= n /\ IsMem(parts[i])
      lit(i) == dec(i) /\ Str(parts[i]) \notin DOMAIN labels
  IN  CASE mn \in {"addi", "andi", "ori", "xori", "slti", "sltiu", "jalr"}
             /\ reg(2) /\ reg(3) /\ dec(4) ->
             Operands("i", mn, XOf(parts[2]), XOf(parts[3]), 0,
                      DecOf(parts[4]))
        [] mn \in {"lw", "lh", "lb", "lhu", "lbu", "jalr"}
             /\ reg(2) /\ mem(3) ->
             Operands("i", mn, XOf(parts[2]), MemBase(parts[3]), 0,
                      MemOff(parts[3]))
        [] mn \in {"slli", "srli", "srai"} /\ reg(2) /\ reg(3) /\ dec(4) ->
             Operands("shift", mn, XOf(parts[2]), XOf(parts[3]), 0,
                      DecOf(parts[4]))
        [] mn \in {"sw", "sh", "sb"} /\ reg(2) /\ mem(3) ->
             Operands("s", mn, 0, MemBase(parts[3]), XOf(parts[2]),
                      MemOff(parts[3]))
        [] mn \in {"add", "sub", "and", "or", "xor", "sll", "srl", "sra",
                   "slt", "sltu"} /\ reg(2) /\ reg(3) /\ reg(4) ->
             Operands("r", mn, XOf(parts[2]), XOf(parts[3]), XOf(parts[4]), 0)
        [] mn \in {"beq", "bne", "blt", "bge", "bltu", "bgeu"}
             /\ reg(2) /\ reg(3) /\ lit(4) ->
             Operands("b", mn, 0, XOf(parts[2]), XOf(parts[3]),
                      DecOf(parts[4]))
        [] mn \in {"lui", "auipc"} /\ reg(2) /\ dec(3) ->
             Operands("u", mn, XOf(parts[2]), 0, 0, DecOf(parts[3]))
        [] mn = "jal" /\ reg(2) /\ lit(3) ->
             Operands("j", mn, XOf(parts[2]), 0, 0, DecOf(parts[3]))
        [] mn = "j" /\ lit(2) ->
             Operands("j", mn, 0, 0, 0, DecOf(parts[2]))
        [] mn \in {"halt", "ecall"} -> Operands("system", mn, 0, 0, 0, 0)
        [] OTHER -> Operands("none", mn, 0, 0, 0, 0)

\* the immediate field a word of the format holds, unsigned
ImmField(kind, w) ==
  CASE kind = "i"     -> Bits(w, 31, 20)
    [] kind = "shift" -> Bits(w, 24, 20)
    [] kind = "s"     -> Bits(w, 31, 25) * 32 + Bits(w, 11, 7)
    [] kind = "b"     -> DecodeB(w) % 8192
    [] kind = "u"     -> Bits(w, 31, 12)
    [] kind = "j"     -> DecodeJ(w) % 2097152

\* the diagnostic of the k-th pending instruction
ErrorOf(k) ==
  errors[CHOOSE e \in 1..Len(errors) :
           errors[e].line_num = instructions[k][3]]

(***************************************************************************)
(* C4: an immediate of width w is accepted exactly in                      *)
(* [-2^(w-1), 2^(w-1)-1] when signed and in [0, 2^w-1] when unsigned, and  *)
(* the instruction fails with "Immediate out of range" for every other     *)
(* value; the field of the word holds an accepted negative value as its    *)
(* w-bit two's complement and a non-negative one unchanged (branch and     *)
(* jump words have no place for bit 0). So addi x1,x0,2048 and             *)
(* addi x1,x0,-2049 give a diagnostic and no word, addi x1,x0,2047 the     *)
(* field 0x7FF and addi x1,x0,-2048 the field 0x800.                       *)
(***************************************************************************)
C4_ImmediateRange ==
  PassesDone =>
    \A k \in 1..Len(instructions) :
      LET op     == Shape(instructions[k][2])
          width  == CASE op.kind \in {"i", "s"} -> 12
                      [] op.kind = "shift" -> 5
                      [] op.kind = "b" -> 13
                      [] op.kind = "u" -> 20
                      [] op.kind = "j" -> 21
          signed == op.kind \in {"i", "s", "b", "j"}
          lo     == IF signed THEN 0 - 2 ^ (width - 1) ELSE 0
          hi     == IF signed THEN 2 ^ (width - 1) - 1 ELSE 2 ^ width - 1
          value  == IF op.v < 0 THEN op.v + 2 ^ width ELSE op.v
      IN  op.kind \in {"i", "shift", "s", "b", "u", "j"} =>
            IF op.v >= lo /\ op.v <= hi
              THEN /\ ~Failed(k)
                   /\ ImmField(op.kind, WordOf(k)) =
                        IF op.kind \in {"b", "j"} THEN value - (value % 2)
                        ELSE value
              ELSE /\ Failed(k)
                   /\ ErrorOf(k).msg = "Immediate out of range"

\* the four addi at the edges of the range, assembled: two diagnostics, two
\* words
C4_Witness ==
  /\ PassesDone
  /\ Len(instructions) = 4
  /\ \A k \in 1..4 : Shape(instructions[k][2]).mn = "addi"
  /\ Shape(instructions[1][2]).v = 2048
  /\ Shape(instructions[2][2]).v = 0 - 2049
  /\ Shape(instructions[3][2]).v = 2047
  /\ Shape(instructions[4][2]).v = 0 - 2048
  /\ Len(errors) = 2
  /\ errors[1].line_num = 1
  /\ errors[2].line_num = 2
  /\ Len(machine_code) = 2
  /\ Bits(machine_code[1], 31, 20) = 2047
  /\ Bits(machine_code[2], 31, 20) = 2048

(***************************************************************************)
(* C5: an I-format instruction (addi, andi, ori, xori, slti, sltiu, the    *)
(* loads, jalr) with rd, rs1 in 0..31 and an immediate in range encodes to *)
(* imm[11:0]<<20 | rs1<<15 | funct3<<12 | rd<<7 | opcode, a word below     *)
(* 2^32; addi x5, x0, 7 is 0x00700293. slli, srli and srai take a shift    *)
(* amount in 0..31 only and their 12-bit field is funct7<<5 | shamt, with  *)
(* funct7 = 0100000 for srai and 0 for slli and srli.                      *)
(***************************************************************************)
C5_IFormat ==
  PassesDone =>
    \A k \in 1..Len(instructions) :
      LET op == Shape(instructions[k][2])
          w  == WordOf(k)
      IN  /\ (op.kind = "i" /\ op.v >= 0 - 2048 /\ op.v <= 2047) =>
                /\ ~Failed(k)
                /\ w[1] < 65536
                /\ Bits(w, 31, 20) = op.v % 4096
                /\ Bits(w, 19, 15) = op.rs1
                /\ Bits(w, 14, 12) = FUNCT3[op.mn]
                /\ Bits(w, 11, 7) = op.rd
                /\ Bits(w, 6, 0) = OPCODES[op.mn]
          /\ (op.kind = "i" /\ op.mn = "addi" /\ op.rd = 5 /\ op.rs1 = 0
              /\ op.v = 7) => w = <<112, 659>>
          /\ op.kind = "shift" =>
                /\ Failed(k) = (op.v < 0 \/ op.v > 31)
                /\ ~Failed(k) =>
                     /\ w[1] < 65536
                     /\ Bits(w, 31, 20) =
                          (IF op.mn = "srai" THEN 32 ELSE 0) * 32 + op.v
                     /\ Bits(w, 19, 15) = op.rs1
                     /\ Bits(w, 14, 12) = FUNCT3[op.mn]
                     /\ Bits(w, 11, 7) = op.rd
                     /\ Bits(w, 6, 0) = OPCODES[op.mn]

\* srai with the largest shift amount, encoded
C5_Witness ==
  /\ PassesDone
  /\ Len(instructions) = 1
  /\ Shape(instructions[1][2]).mn = "srai"
  /\ Shape(instructions[1][2]).v = 31
  /\ Len(machine_code) = 1
  /\ Bits(machine_code[1], 31, 20) = 1055

(***************************************************************************)
(* C6: the constant fields of a word are fixed by the mnemonic alone.      *)
(* R-type: opcode 0110011, funct3 add,sub=000 sll=001 slt=010 sltu=011     *)
(* xor=100 srl,sra=101 or=110 and=111, funct7 0100000 for sub and sra and  *)
(* 0 otherwise; I-ALU: opcode 0010011; loads: 0000011 with lb=000 lh=001   *)
(* lw=010 lbu=100 lhu=101; stores: 0100011 with sb=000 sh=001 sw=010;      *)
(* branches: 1100011 with beq=000 bne=001 blt=100 bge=101 bltu=110         *)
(* bgeu=111; jal 1101111; jalr 1100111 with funct3 000; lui 0110111; auipc *)
(* 0010111; halt and ecall are 0x00000073 whatever operands follow.        *)
(***************************************************************************)
C6_Opcode(mn) ==
  CASE mn \in {"add", "sub", "and", "or", "xor", "sll", "srl", "sra", "slt",
               "sltu"} -> 51
    [] mn \in {"addi", "andi", "ori", "xori", "slti", "sltiu", "slli", "srli",
               "srai"} -> 19
    [] mn \in {"lw", "lh", "lb", "lhu", "lbu"} -> 3
    [] mn \in {"sw", "sh", "sb"} -> 35
    [] mn \in {"beq", "bne", "blt", "bge", "bltu", "bgeu"} -> 99
    [] mn \in {"jal", "j"} -> 111
    [] mn = "jalr" -> 103
    [] mn = "lui" -> 55
    [] mn = "auipc" -> 23

C6_Funct3(mn) ==
  CASE mn \in {"add", "sub", "lb", "sb", "beq", "jalr"} -> 0
    [] mn \in {"sll", "lh", "sh", "bne"} -> 1
    [] mn \in {"slt", "lw", "sw"} -> 2
    [] mn = "sltu" -> 3
    [] mn \in {"xor", "lbu", "blt"} -> 4
    [] mn \in {"srl", "sra", "lhu", "bge"} -> 5
    [] mn \in {"or", "bltu"} -> 6
    [] mn \in {"and", "bgeu"} -> 7

C6_ConstantFields ==
  PassesDone =>
    \A k \in 1..Len(instructions) :
      LET op == Shape(instructions[k][2])
          w  == WordOf(k)
      IN  /\ op.kind = "system" => ~Failed(k) /\ w = <<0, 115>>
          /\ (op.kind \in {"r", "i", "shift", "s", "b", "u", "j"}
              /\ ~Failed(k)) =>
                /\ Bits(w, 6, 0) = C6_Opcode(op.mn)
                /\ (op.kind \in {"r", "s", "b"}
                    \/ op.mn \in {"lw", "lh", "lb", "lhu", "lbu", "jalr"}) =>
                      Bits(w, 14, 12) = C6_Funct3(op.mn)
                /\ op.kind = "r" =>
                      /\ ~Failed(k)
                      /\ Bits(w, 31, 25) =
                           (IF op.mn \in {"sub", "sra"} THEN 32 ELSE 0)
                      /\ Bits(w, 24, 20) = op.rs2
                      /\ Bits(w, 19, 15) = op.rs1
                      /\ Bits(w, 11, 7) = op.rd
                /\ op.kind \in {"s", "b"} =>
                      /\ Bits(w, 24, 20) = op.rs2
                      /\ Bits(w, 19, 15) = op.rs1
                /\ op.kind \in {"u", "j"} => Bits(w, 11, 7) = op.rd
          /\ op.kind = "r" => ~Failed(k)

\* halt followed by a register that does not exist, encoded
C6_Witness ==
  /\ PassesDone
  /\ Len(instructions) = 1
  /\ Tokens(instructions[1][2]) = <<<<"H", "A", "L", "T">>, <<"x", "9", "9">>>>
  /\ errors = <<>>
  /\ machine_code = <<<<0, 115>>>>

(***************************************************************************)
(* C7: label binding. A label on a line of its own is bound to the address *)
(* of the next instruction line that follows it, its own line consuming no *)
(* address; a label followed by an instruction on its line is bound to     *)
(* that instruction's address. Of several definitions of a name the last   *)
(* one binds. The source loop: / add x2,x2,x3 / bne x1,x2,loop / halt      *)
(* gives 3 words, loop bound to 0, and a bne word with offset -4.          *)
(***************************************************************************)
HasLabel(raw) == FirstIn(StripComment(raw), {":"}) # 0

LabelNameOf(raw) ==
  Str(strip(SubSeq(StripComment(raw), 1,
                   FirstIn(StripComment(raw), {":"}) - 1)))

C7_LabelBinding ==
  /\ FirstPassDone =>
       \A n \in 1..Len(lines) :
         (/\ HasLabel(lines[n])
          /\ \A m \in (n + 1)..Len(lines) :
                HasLabel(lines[m]) =>
                  LabelNameOf(lines[m]) # LabelNameOf(lines[n])) =>
           LET name  == LabelNameOf(lines[n])
               after == {m \in n..Len(lines) : IsInstrLine(lines[m])}
           IN  /\ name \in DOMAIN labels
               /\ labels[name] = AddressOfLine(n)
               /\ ~IsInstrLine(lines[n]) =>
                    \A k \in 1..Len(instructions) : instructions[k][3] # n
               /\ IF after = {} THEN labels[name] = current_address
                  ELSE \E k \in 1..Len(instructions) :
                         /\ instructions[k][3] = NthOf(after, 1)
                         /\ instructions[k][1] = labels[name]
  /\ (PassesDone /\ source = JoinLines(LoopExample)) =>
       /\ errors = <<>>
       /\ Len(machine_code) = 3
       /\ DOMAIN labels = {"loop"}
       /\ labels["loop"] = 0
       /\ DecodeB(machine_code[2]) = 0 - 4

\* the example assembled
C7_Witness ==
  /\ PassesDone
  /\ source = JoinLines(LoopExample)
  /\ Len(machine_code) = 3
  /\ labels["loop"] = 0

(***************************************************************************)
(* C8: in every state during and after pass 1 the i-th pending instruction *)
(* (from 0) has address 4*i, a multiple of 4, and the running address is 4 *)
(* times the number of pending instructions; a blank line, a comment-only  *)
(* line and a label-only line add no pending instruction and do not        *)
(* advance the address: the pending instructions are those of the other    *)
(* lines read so far, one each.                                            *)
(***************************************************************************)
Blank(raw) == \A i \in 1..Len(raw) : raw[i] \in Whitespace

CommentOnly(raw) ==
  /\ ~Blank(raw)
  /\ LET c == FirstIn(raw, {"#", ";"})
     IN  c # 0 /\ Blank(SubSeq(raw, 1, c - 1))

LabelOnly(raw) ==
  LET c    == FirstIn(raw, {"#", ";"})
      code == IF c = 0 THEN raw ELSE SubSeq(raw, 1, c - 1)
      at   == FirstIn(code, {":"})
  IN  at # 0 /\ Blank(SubSeq(code, at + 1, Len(code)))

LinesRead == 1..(IF pc = "first_pass" THEN line_num - 1 ELSE Len(lines))

C8_Addresses ==
  /\ \A i \in 1..Len(instructions) :
        /\ instructions[i][1] = 4 * (i - 1)
        /\ instructions[i][1] % 4 = 0
  /\ current_address = 4 * Len(instructions)
  /\ pc # "ready" =>
       LET other == {j \in LinesRead :
                       ~(Blank(lines[j]) \/ CommentOnly(lines[j])
                         \/ LabelOnly(lines[j]))}
       IN  /\ Len(instructions) = Cardinality(other)
           /\ {instructions[i][3] : i \in 1..Len(instructions)} = other

\* pass 1 under way: a comment line and an instruction read, the instruction
\* of line 2 pending at address 0
C8_Witness ==
  /\ pc = "first_pass"
  /\ line_num = 3
  /\ CommentOnly(lines[1])
  /\ Len(instructions) = 1
  /\ instructions[1][1] = 0
  /\ instructions[1][3] = 2
  /\ current_address = 4

(***************************************************************************)
(* C9: after pass 2 the number of words plus the number of diagnostics is  *)
(* the number of pending instructions; with no diagnostic there is one     *)
(* word per pending instruction and the i-th word is the encoding of the   *)
(* i-th pending instruction.                                               *)
(***************************************************************************)
C9_WordsAndDiagnostics ==
  PassesDone =>
    /\ Len(machine_code) + Len(errors) = Len(instructions)
    /\ errors = <<>> =>
         /\ Len(machine_code) = Len(instructions)
         /\ \A i \in 1..Len(instructions) :
              LET code == assemble_instruction(instructions[i][2],
                                               instructions[i][1], labels)
              IN  code.ok /\ machine_code[i] = code.v

\* three pending instructions: two words and a diagnostic
C9_Witness ==
  /\ PassesDone
  /\ Len(instructions) = 3
  /\ Len(machine_code) = 2
  /\ Len(errors) = 1

(***************************************************************************)
(* C10: in every front-end flow (main, run.py, the GUI's assemble and its  *)
(* exports) no serializer (to_hex, to_mem, to_verilog) is called and no    *)
(* output is written after an assembly with at least one diagnostic.       *)
(***************************************************************************)
C10_NoOutputAfterDiagnostics == errors # <<>> => outputs = <<>>

\* run.py ended by the assembler's exit, nothing written
C10_Witness ==
  /\ flow = "run"
  /\ pc = "terminated"
  /\ errors # <<>>
  /\ outputs = <<>>

(***************************************************************************)
(* C11: an assembler instance processes exactly one source text: a second  *)
(* assemble call on an instance that has already processed a source is     *)
(* rejected, and the labels, pending instructions and words the first      *)
(* source left never appear in what is produced for the second source.     *)
(* The code: nothing in assemble or first_pass looks at what the instance  *)
(* holds; the second call runs both passes over the old and the new        *)
(* pending instructions and returns the old words, the old words again,    *)
(* and the new words.                                                      *)
(***************************************************************************)
\* what a fresh instance holds after both passes over the lines
FreshRun(ls) == second_pass(first_pass(NewAssembler, ls))

C11_SingleSource ==
  flow = "call_again" =>
    /\ pc # "returned"
    /\ PassesDone =>
         Let(FreshRun(lines), LAMBDA fresh :
           /\ labels = fresh.labels
           /\ instructions = fresh.instructions
           /\ machine_code = fresh.machine_code)

\* 'l: nop' then 'j l' on one instance: the second call returns the word of
\* nop twice and a jump to the label of the first source
C11_Leak ==
  /\ flow = "call_again" /\ pc = "returned"
  /\ source = Text(<<"j", " ", "l">>)
  /\ machine_code = <<(<<0, 19>>), <<0, 19>>, <<0, 111>>>>
  /\ FreshRun(lines).machine_code = <<>>
  /\ FreshRun(lines).errors # <<>>

(***************************************************************************)
(* C12: parse_register returns a value in 0..31 for every canonical name   *)
(* x0..x31 and every ABI alias (zero, ra, sp, gp, tp, t0-t6, s0-s11, fp,   *)
(* a0-a7), ignoring letter case, and fails for every other token; an       *)
(* instruction written with an alias encodes to the same word as the       *)
(* instruction written with the corresponding x-index, fp and s0 both      *)
(* being register 8.                                                       *)
(***************************************************************************)
\* the registers a token names, letter case ignored: one or none
RegistersNamed(tok) == {r \in 0..31 : lower(tok) \in RegNames(r)}

\* the register operands of 'add a, b, c' and of 'lw a, 4(b)', as written
RegOperands(parts) ==
  IF Len(parts) = 4 THEN <<parts[2], parts[3], parts[4]>>
  ELSE <<parts[2], SubSeq(parts[3], 3, Len(parts[3]) - 1)>>

\* the same instruction with every register written as x<index>
CanonicalLine(parts, regs) ==
  IF Len(parts) = 4 THEN Line3("add", X(regs[1]), X(regs[2]), X(regs[3]))
  ELSE Line2("lw", X(regs[1]), <<"4", "(">> \o X(regs[2]) \o <<")">>)

C12_Registers ==
  PassesDone /\ Len(lines) = 1 /\ Len(instructions) = 1 =>
    Let(Tokens(lines[1]), LAMBDA parts :
    Let(RegOperands(parts), LAMBDA ops :
      IF \A k \in 1..Len(ops) : RegistersNamed(ops[k]) # {}
      THEN Let([k \in 1..Len(ops) |-> CHOOSE r \in RegistersNamed(ops[k]) : TRUE],
           LAMBDA regs :
             /\ errors = <<>>
             /\ Len(machine_code) = 1
             /\ Bits(machine_code[1], 11, 7) = regs[1]
             /\ Bits(machine_code[1], 19, 15) = regs[2]
             /\ Len(regs) = 3 => Bits(machine_code[1], 24, 20) = regs[3]
             /\ machine_code = FreshRun(<<CanonicalLine(parts, regs)>>).machine_code)
      ELSE /\ machine_code = <<>>
           /\ Len(errors) = 1
           /\ errors[1].msg = "Unknown register"))

\* 'add FP, x1, x2' is 'add x8, x1, x2', 0x00208433
C12_Witness ==
  /\ PassesDone
  /\ source = Line3("add", <<"F", "P">>, X(1), X(2))
  /\ errors = <<>>
  /\ machine_code = <<(<<32, 33843>>)>>
  /\ Bits(machine_code[1], 11, 7) = 8

(***************************************************************************)
(* C13: two fresh assembler instances that run pass 1 and pass 2 over the  *)
(* same source text end with identical word sequences, identical           *)
(* diagnostics and identical label tables, whatever the order in which     *)
(* their steps are taken.                                                  *)
(***************************************************************************)
TwinPassesDone ==
  twin.pc = "second_pass" /\ twin.idx > Len(twin.self.instructions)

C13_Determinism ==
  PassesDone /\ TwinPassesDone =>
    /\ machine_code = twin.self.machine_code
    /\ errors = twin.self.errors
    /\ labels = twin.self.labels

\* 'j l' before 'l: nop', both instances through: a word for each line in
\* both, the label in both
C13_Witness ==
  /\ PassesDone /\ TwinPassesDone
  /\ lines = <<Text(<<"j", " ", "l">>), Text(<<"l", ":", " ", "nop">>)>>
  /\ Len(twin.self.machine_code) = 2
  /\ Len(machine_code) = 2
  /\ DOMAIN twin.self.labels = {"l"}

(***************************************************************************)
(* C14: pseudo-instructions encode to the same word as their expansion at  *)
(* the same address and with the same label table: nop equals              *)
(* 'addi x0,x0,0' (0x00000013); 'li rd,imm' equals 'addi rd,x0,imm' and is *)
(* accepted for exactly the same 12-bit signed range; 'mv rd,rs' equals    *)
(* 'addi rd,rs,0'; 'j target' equals 'jal x0,target' for both label and    *)
(* literal targets.                                                        *)
(***************************************************************************)
\* the source line with its pseudo-instruction written out, its label kept
Expanded(raw) ==
  LET parts == Tokens(InstrText(raw))
      mn    == IF parts = <<>> THEN "" ELSE Str(lower(parts[1]))
      label == LabelPart(raw) \o <<" ">>
  IN  CASE mn = "nop" ->
             label \o Line3("addi", X(0), X(0), <<"0">>)
        [] mn = "li" /\ Len(parts) = 3 ->
             label \o Line3("addi", parts[2], X(0), parts[3])
        [] mn = "mv" /\ Len(parts) = 3 ->
             label \o Line3("addi", parts[2], parts[3], <<"0">>)
        [] mn = "j" /\ Len(parts) = 2 ->
             label \o Line2("jal", X(0), parts[2])
        [] OTHER -> raw

IsNop(text) == Let(Tokens(text), LAMBDA parts : Str(lower(parts[1])) = "nop")

C14_Pseudo ==
  PassesDone =>
    Let(FreshRun([k \in 1..Len(lines) |-> Expanded(lines[k])]), LAMBDA e :
      /\ machine_code = e.machine_code
      /\ labels = e.labels
      /\ Len(errors) = Len(e.errors)
      /\ \A k \in 1..Len(errors) :
            /\ errors[k].line_num = e.errors[k].line_num
            /\ errors[k].msg = e.errors[k].msg
      /\ \A k \in 1..Len(instructions) :
            IsNop(instructions[k][2]) => WordOf(k) = <<0, 19>>)

\* 'end:halt', 'j end', 'loop:': the jump is 'jal x0, end' with offset -4,
\* 0xffdff06f
C14_Witness ==
  /\ PassesDone
  /\ lines = <<Text(<<"end", ":", "halt">>), Text(<<"j", " ", "end">>),
               Text(<<"loop", ":">>)>>
  /\ Expanded(lines[2]) = Text(<<" ", "jal", " ", "x0", ",", " ", "end">>)
  /\ machine_code = <<(<<0, 115>>), <<65503, 61551>>>>
  /\ errors = <<>>

\* 'li x5, 2048' and 'addi x5, x0, 2048' are both out of range
C14_WitnessLi ==
  /\ PassesDone
  /\ lines = <<Line2("li", X(5), Dec(2048))>>
  /\ Expanded(lines[1]) = <<" ">> \o Line3("addi", X(5), X(0), Dec(2048))
  /\ machine_code = <<>>
  /\ errors[1].msg = "Immediate out of range"

(***************************************************************************)
(* C15: split-immediate round trip. For every even branch offset in        *)
(* [-4096, 4094], bit 31, bits 30:25, bits 11:8 and bit 7 of the B-type    *)
(* word, read as imm[12], imm[10:5], imm[4:1], imm[11] and sign-extended,  *)
(* give back the offset; for every even jump offset in [-2^20, 2^20-2],    *)
(* bit 31, bits 30:21, bit 20 and bits 19:12 of the J-type word, read as   *)
(* imm[20], imm[10:1], imm[11], imm[19:12], give back the offset; for      *)
(* every store offset in [-2048, 2047], bits 31:25 and 11:7 of the S-type  *)
(* word, read as imm[11:5], imm[4:0], give back the offset. This holds     *)
(* whether the offset came from a label or from a literal, and the         *)
(* register, funct3 and opcode fields are unaffected by the offset.        *)
(***************************************************************************)
DecodeS(w) == Signed(Bits(w, 31, 25) * 32 + Bits(w, 11, 7), 12)

\* a branch or jump target as written: a label of the table, else a literal
IsTarget(tgt) == Str(tgt) \in DOMAIN labels \/ IsDec(tgt)

OffsetOf(tgt, addr) ==
  IF Str(tgt) \in DOMAIN labels THEN labels[Str(tgt)] - addr ELSE DecOf(tgt)

C15_SplitRoundTrip ==
  PassesDone =>
    \A k \in 1..Len(instructions) :
      Let(Tokens(instructions[k][2]), LAMBDA parts :
        LET mn  == Str(lower(parts[1]))
            n   == Len(parts)
            a   == instructions[k][1]
            isB == /\ mn \in {"beq", "bne", "blt", "bge", "bltu", "bgeu"}
                   /\ n = 4 /\ IsX(parts[2]) /\ IsX(parts[3])
                   /\ IsTarget(parts[4])
                   /\ OffsetOf(parts[4], a) \in (0 - 4096)..4094
                   /\ OffsetOf(parts[4], a) % 2 = 0
            isJ == /\ mn = "jal" /\ n = 3 /\ IsX(parts[2])
                   /\ IsTarget(parts[3])
                   /\ OffsetOf(parts[3], a) \in (0 - 1048576)..1048574
                   /\ OffsetOf(parts[3], a) % 2 = 0
            isS == /\ mn \in {"sw", "sh", "sb"} /\ n = 3 /\ IsX(parts[2])
                   /\ IsMem(parts[3])
                   /\ MemOff(parts[3]) \in (0 - 2048)..2047
        IN  /\ isB =>
                 /\ ~Failed(k)
                 /\ DecodeB(WordOf(k)) = OffsetOf(parts[4], a)
                 /\ Bits(WordOf(k), 24, 20) = XOf(parts[3])
                 /\ Bits(WordOf(k), 19, 15) = XOf(parts[2])
                 /\ Bits(WordOf(k), 14, 12) = C6_Funct3(mn)
                 /\ Bits(WordOf(k), 6, 0) = 99
            /\ isJ =>
                 /\ ~Failed(k)
                 /\ DecodeJ(WordOf(k)) = OffsetOf(parts[3], a)
                 /\ Bits(WordOf(k), 11, 7) = XOf(parts[2])
                 /\ Bits(WordOf(k), 6, 0) = 111
            /\ isS =>
                 /\ ~Failed(k)
                 /\ DecodeS(WordOf(k)) = MemOff(parts[3])
                 /\ Bits(WordOf(k), 24, 20) = XOf(parts[2])
                 /\ Bits(WordOf(k), 19, 15) = MemBase(parts[3])
                 /\ Bits(WordOf(k), 14, 12) = C6_Funct3(mn)
                 /\ Bits(WordOf(k), 6, 0) = 35)

\* 'bne x5, x31, -4096', 0x81f29063: only imm[12] set, the offset read back
C15_Witness ==
  /\ PassesDone
  /\ lines = <<Line3("bne", X(5), X(31), Dec(0 - 4096))>>
  /\ machine_code = <<(<<33266, 36963>>)>>
  /\ DecodeB(machine_code[1]) = 0 - 4096
  /\ Bits(machine_code[1], 31, 31) = 1
  /\ Bits(machine_code[1], 30, 25) = 0

\* offsets from the label table: the branch at 0 to 'end' at 4, the jump at
\* 4 back to 'loop' at 0
C15_WitnessLabel ==
  /\ PassesDone
  /\ lines = <<Text(<<"loop", ":", " ", "beq", " ", "x1", ",", "x2", ",", "end">>),
               Text(<<"end", ":", " ", "jal", " ", "x5", ",", "loop">>)>>
  /\ Len(machine_code) = 2
  /\ DecodeB(machine_code[1]) = 4
  /\ DecodeJ(machine_code[2]) = 0 - 4

(***************************************************************************)
(* C16: the three crypto mnemonics rng, rotl and rotr all encode with      *)
(* opcode 0001011 and funct7 0 and differ only by funct3 (rotl=010,        *)
(* rotr=011, rng=100) and their register fields; rotl and rotr place rd,   *)
(* rs1, rs2 in the R-format positions, and rng takes only rd and always    *)
(* encodes rs1 = rs2 = 0, so no two distinct crypto mnemonics ever produce *)
(* the same word for the same registers and no crypto word collides with a *)
(* base-instruction word.                                                  *)
(***************************************************************************)
CryptoNames == {"rng", "rotl", "rotr"}

\* the instruction text with another mnemonic in front of the same operands
WithMnemonic(parts, m) ==
  Chars(m) \o <<" ">> \o
    JoinLines([i \in 1..(Len(parts) - 1) |->
                 IF i = 1 THEN parts[i + 1] ELSE <<" ">> \o parts[i + 1]])

C16_Crypto ==
  PassesDone =>
    \A k \in 1..Len(instructions) :
      Let(Tokens(instructions[k][2]), LAMBDA parts :
        LET mn == Str(lower(parts[1]))
            n  == Len(parts)
            w  == WordOf(k)
            wellFormed ==
              /\ mn \in CryptoNames
              /\ n >= (IF mn = "rng" THEN 2 ELSE 4)
              /\ \A i \in 2..(IF mn = "rng" THEN 2 ELSE 4) : IsX(parts[i])
        IN  /\ wellFormed =>
                 /\ ~Failed(k)
                 /\ Bits(w, 6, 0) = 11
                 /\ Bits(w, 31, 25) = 0
                 /\ Bits(w, 14, 12) =
                      (CASE mn = "rotl" -> 2 [] mn = "rotr" -> 3
                         [] mn = "rng" -> 4)
                 /\ Bits(w, 11, 7) = XOf(parts[2])
                 /\ Bits(w, 19, 15) = (IF mn = "rng" THEN 0 ELSE XOf(parts[3]))
                 /\ Bits(w, 24, 20) = (IF mn = "rng" THEN 0 ELSE XOf(parts[4]))
                 /\ \A m \in CryptoNames \ {mn} :
                      Let(FreshRun(<<WithMnemonic(parts, m)>>).machine_code,
                          LAMBDA other : other # <<>> => other[1] # w)
            /\ (mn \notin CryptoNames /\ ~Failed(k)) => Bits(w, 6, 0) # 11)

\* 'rng x5, x5, x5' is 0x0000428b, 'rotl x5, x5, x5' is 0x0052a28b
C16_Witness ==
  /\ PassesDone
  /\ lines = <<Line3("rng", X(5), X(5), X(5))>>
  /\ machine_code = <<(<<0, 17035>>)>>
  /\ FreshRun(<<Line3("rotl", X(5), X(5), X(5))>>).machine_code
       = <<(<<82, 41611>>)>>

(***************************************************************************)
(* C17: lifecycle and frame. Pass 1 only inserts into the label table and  *)
(* appends to the pending-instruction list and leaves the word sequence    *)
(* and the diagnostics untouched; pass 2 only appends to the word sequence *)
(* and to the diagnostics and leaves the label table and the               *)
(* pending-instruction list exactly as pass 1 left them, also when a line  *)
(* fails; no element already appended to any of the four collections is    *)
(* ever changed or removed.                                                *)
(* The code: "self.labels[label] = self.current_address" overwrites the    *)
(* address of a name that is defined again. As amended: nothing is ever    *)
(* removed from any of the four collections, and nothing is changed but    *)
(* the address of a label, by pass 1, at a later definition of its name.   *)
(***************************************************************************)
IsPrefix(a, b) == Len(a) <= Len(b) /\ SubSeq(b, 1, Len(a)) = a

\* what every step keeps, whichever pass it belongs to
FrameOfLists ==
  /\ IsPrefix(instructions, instructions')
  /\ IsPrefix(machine_code, machine_code')
  /\ IsPrefix(errors, errors')
  /\ DOMAIN labels \subseteq DOMAIN labels'
  /\ pc = "first_pass" => machine_code' = machine_code /\ errors' = errors
  /\ pc = "second_pass" => labels' = labels /\ instructions' = instructions

\* the claim as it stands: a label, once in the table, keeps its address
C17_FrameNoChange ==
  [][/\ FrameOfLists
     /\ \A n \in DOMAIN labels : labels'[n] = labels[n]]_vars

\* the claim as amended
C17_Frame ==
  [][/\ FrameOfLists
     /\ \A n \in DOMAIN labels :
          labels'[n] # labels[n] =>
            /\ pc = "first_pass"
            /\ HasLabel(lines[line_num])
            /\ LabelNameOf(lines[line_num]) = n]_vars

\* 'loop:', a line that fails, 'loop:' again: after pass 2 the list and the
\* table are as pass 1 left them, the table with the second address of loop
C17_Witness ==
  /\ PassesDone
  /\ lines = <<Text(<<"loop", ":">>),
               Text(<<"add", " ", "x1", ",", "x99", ",", "x2">>),
               Text(<<"loop", ":">>)>>
  /\ Len(errors) = 1 /\ machine_code = <<>>
  /\ labels = first_pass(NewAssembler, lines).labels
  /\ instructions = first_pass(NewAssembler, lines).instructions
  /\ labels["loop"] = 4

(***************************************************************************)
(* C18: pass 1 never raises and never records a diagnostic, for any source *)
(* text whatsoever (lines that are only ':', lines with several ':', lines *)
(* made only of commas or comment characters); every error is recorded in  *)
(* pass 2, in source order of the failing lines, and every exception       *)
(* raised while encoding one line, also one caused by a missing operand,   *)
(* is turned into a diagnostic for that line.                              *)
(***************************************************************************)
\* the operands the code reads after the mnemonic
OperandsRead(mn) ==
  CASE mn \in RTypeNames \cup IAluNames \cup ShiftNames \cup BranchNames
            \cup {"rotl", "rotr"} -> 3
    [] mn \in LoadNames \cup StoreNames \cup {"jal", "jalr", "lui", "auipc",
                                              "li", "mv"} -> 2
    [] mn \in {"j", "rng"} -> 1
    [] OTHER -> 0

C18_PassOneSilent ==
  /\ pc \in {"ready", "first_pass"} \/ (pc = "second_pass" /\ idx = 1) =>
       errors = <<>> /\ machine_code = <<>>
  /\ FirstPassDone =>
       /\ line_num = Len(lines) + 1
       /\ Len(instructions) =
            Cardinality({n \in 1..Len(lines) : IsInstrLine(lines[n])})
  /\ pc = "second_pass" =>
       Len(machine_code) + Len(errors) = idx - 1
  /\ PassesDone =>
       /\ Len(machine_code) + Len(errors) = Len(instructions)
       /\ \A e \in 1..Len(errors) :
            /\ \E k \in 1..Len(instructions) :
                 /\ instructions[k][3] = errors[e].line_num
                 /\ Str(instructions[k][2]) = errors[e].text
            /\ e > 1 => errors[e - 1].line_num < errors[e].line_num
       /\ \A k \in 1..Len(instructions) :
            Let(Tokens(instructions[k][2]), LAMBDA parts :
              \/ /\ parts = <<>>
                 /\ Failed(k)
                 /\ ErrorOf(k).msg = "list index out of range"
              \/ /\ parts # <<>>
                 /\ (/\ Len(parts) - 1 < OperandsRead(Str(lower(parts[1])))
                     /\ \A i \in 2..Len(parts) : IsX(parts[i])) =>
                       /\ Failed(k)
                       /\ ErrorOf(k).msg = "list index out of range")

\* ',,,' and 'add x1': two pending instructions from pass 1, two diagnostics
\* from pass 2, in the order of the lines
C18_Witness ==
  /\ PassesDone
  /\ lines = <<Text(<<",", ",", ",">>), Text(<<"add", " ", "x1">>)>>
  /\ Len(instructions) = 2
  /\ machine_code = <<>>
  /\ errors = <<[line_num |-> 1, msg |-> "list index out of range",
                 text |-> ",,,"],
                [line_num |-> 2, msg |-> "list index out of range",
                 text |-> "add x1"]>>

(***************************************************************************)
(* C19: a line whose text before its first ':' is not a well-formed label  *)
(* name (it is empty, contains whitespace, or is itself instruction text   *)
(* such as 'add x1') registers nothing in the label table, and the whole   *)
(* line is kept as the text of one pending instruction.                    *)
(* The code: whatever stands before the first ':' is stripped and written  *)
(* to the label table, and only what follows the ':' is kept.              *)
(***************************************************************************)
\* the text before the first ':' of a line that has one
BeforeColon(raw) ==
  strip(SubSeq(StripComment(raw), 1, FirstIn(StripComment(raw), {":"}) - 1))

\* empty, or with whitespace inside
Malformed(name) ==
  name = <<>> \/ \E i \in 1..Len(name) : name[i] \in Whitespace

C19_MalformedLabel ==
  FirstPassDone =>
    \A n \in 1..Len(lines) :
      (HasLabel(lines[n]) /\ Malformed(BeforeColon(lines[n]))) =>
        /\ Str(BeforeColon(lines[n])) \notin DOMAIN labels
        /\ \E k \in 1..Len(instructions) :
             /\ instructions[k][3] = n
             /\ instructions[k][2] = StripComment(lines[n])

\* 'add x1: nop' has left the label 'add x1' at 0 and the instruction 'nop'
C19_Registered ==
  /\ FirstPassDone
  /\ lines = <<Text(<<"add", " ", "x1", ":", " ", "nop">>)>>
  /\ labels = [n \in {"add x1"} |-> 0]
  /\ instructions = <<(<<0, Text(<<"nop">>), 1>>)>>

(***************************************************************************)
(* C20: when a label name is defined more than once, no diagnostic is      *)
(* raised and the label table maps the name to the address of its last     *)
(* definition in source order; every reference to that name, also one      *)
(* before the first definition or between two definitions, resolves to     *)
(* that last address.                                                      *)
(***************************************************************************)
\* the lines that define the name
DefinitionsOf(name) ==
  {n \in 1..Len(lines) : HasLabel(lines[n]) /\ LabelNameOf(lines[n]) = name}

LastOf(S) == CHOOSE n \in S : \A m \in S : m <= n

\* the name a branch or jump on valid registers refers to, "" when the text
\* is no such instruction
TargetName(parts) ==
  LET mn == IF parts = <<>> THEN "" ELSE Str(lower(parts[1]))
  IN  CASE mn \in BranchNames /\ Len(parts) >= 4 /\ IsX(parts[2])
             /\ IsX(parts[3]) -> Str(parts[4])
        [] mn = "jal" /\ Len(parts) >= 3 /\ IsX(parts[2]) -> Str(parts[3])
        [] mn = "j" /\ Len(parts) >= 2 -> Str(parts[2])
        [] OTHER -> ""

C20_Redefinition ==
  PassesDone =>
    \A name \in DOMAIN labels :
      Cardinality(DefinitionsOf(name)) > 1 =>
        /\ labels[name] = AddressOfLine(LastOf(DefinitionsOf(name)))
        /\ \A n \in DefinitionsOf(name) :
             ~IsInstrLine(lines[n]) =>
               \A e \in 1..Len(errors) : errors[e].line_num # n
        /\ \A k \in 1..Len(instructions) :
             Let(Tokens(instructions[k][2]), LAMBDA parts :
               TargetName(parts) = name =>
                 /\ ~Failed(k)
                 /\ (IF Str(lower(parts[1])) \in BranchNames
                       THEN DecodeB(WordOf(k)) ELSE DecodeJ(WordOf(k)))
                      = AddressOfLine(LastOf(DefinitionsOf(name)))
                          - instructions[k][1])

\* a reference between two definitions: 'loop:' at 0, the branch at 0,
\* 'loop:' at 4; the branch goes forward by 4
C20_Witness ==
  /\ PassesDone
  /\ lines = <<Text(<<"loop", ":">>),
               Text(<<"bne", " ", "x1", ",", "x2", ",", "loop">>),
               Text(<<"loop", ":">>)>>
  /\ labels = [n \in {"loop"} |-> 4]
  /\ errors = <<>>
  /\ Len(machine_code) = 1
  /\ DecodeB(machine_code[1]) = 4

\* a reference before the first definition: 'j end' at 0, 'end:' at 4 and
\* at 8; the jump goes to 8
C20_WitnessBefore ==
  /\ PassesDone
  /\ lines = <<Text(<<"j", " ", "end">>),
               Text(<<"end", ":", " ", "halt", " ", ";", "end">>),
               Text(<<"end", ":", " ", "halt", " ", ";", "end">>)>>
  /\ labels = [n \in {"end"} |-> 8]
  /\ errors = <<>>
  /\ DecodeJ(machine_code[1]) = 8

(***************************************************************************)
(* C21: a branch, jal or j instruction whose target operand is neither a   *)
(* label in the label table nor a syntactically valid integer literal      *)
(* yields exactly one diagnostic for its line and no word, the diagnostic  *)
(* being the generic immediate-parse failure; label lookup is by exact,    *)
(* case-sensitive match, so a target that differs from a defined label     *)
(* only in letter case is unresolved.                                      *)
(***************************************************************************)
\* a token that begins with a letter: no integer literal
IsWord(tgt) ==
  tgt # <<>> /\ (IndexIn(tgt[1], LowerLetters) # 0
                  \/ IndexIn(tgt[1], UpperLetters) # 0)

\* the target token of a branch or jump on valid registers
TargetToken(parts) ==
  LET mn == Str(lower(parts[1]))
  IN  IF mn \in BranchNames THEN parts[4]
      ELSE IF mn = "jal" THEN parts[3] ELSE parts[2]

C21_UnresolvedTarget ==
  PassesDone =>
    \A k \in 1..Len(instructions) :
      Let(Tokens(instructions[k][2]), LAMBDA parts :
        (/\ TargetName(parts) # ""
         /\ TargetName(parts) \notin DOMAIN labels
         /\ IsWord(TargetToken(parts))) =>
           /\ Cardinality({e \in 1..Len(errors) :
                             errors[e].line_num = instructions[k][3]}) = 1
           /\ ErrorOf(k).msg = "invalid literal for int()"
           /\ ErrorOf(k).text = Str(instructions[k][2])
           /\ Len(machine_code) =
                Cardinality({j \in 1..Len(instructions) : ~Failed(j)}))

\* 'foo: beq x1,x2,Foo' on line 7: foo is in the table, Foo is not
C21_Witness ==
  /\ PassesDone
  /\ Len(lines) = 7
  /\ "foo" \in DOMAIN labels
  /\ "Foo" \notin DOMAIN labels
  /\ TargetName(Tokens(instructions[7][2])) = "Foo"
  /\ \E e \in 1..Len(errors) :
       /\ errors[e].line_num = 7
       /\ errors[e].msg = "invalid literal for int()"
  /\ Len(machine_code) < Len(instructions)

(***************************************************************************)
(* C22: for a program of n words, the hardware-init text holds one entry   *)
(* per word at array indices 0..n-1 in word order, followed by no-op       *)
(* filler entries (word 0x00000013) at exactly the indices                 *)
(* n .. min(n+5, 64)-1: at most 5 filler entries, none when n >= 64, and   *)
(* no array index at or beyond the capacity of 64 is ever written.         *)
(* The code: only the filler stops at 64; the entries of the words are     *)
(* written for every word, the 65th at index 64.                           *)
(***************************************************************************)
\* four hexadecimal digits read back
HexValue(cs) ==
  LET d(i) == IndexIn(cs[i], HexUpperChars) - 1
  IN  4096 * d(1) + 256 * d(2) + 16 * d(3) + d(4)

\* the word an 8-digit field stands for
WordRead(cs) == <<HexValue(SubSeq(cs, 1, 4)), HexValue(SubSeq(cs, 5, 8))>>

VerilogTexts ==
  {outputs[i].text : i \in {j \in 1..Len(outputs) :
                              outputs[j].serializer = "to_verilog"}}

\* the entries of the words and of the filler, as the claim has them
VerilogEntriesAsClaimed(v) ==
  LET n    == Len(machine_code)
      last == (IF n + 5 < 64 THEN n + 5 ELSE 64) - 1
  IN  /\ Len(v.rows) = n
      /\ \A k \in 1..n :
            /\ NatOf(v.rows[k].index) = k - 1
            /\ WordRead(v.rows[k].code) = machine_code[k]
      /\ Len(v.filler) = (IF last >= n THEN last - n + 1 ELSE 0)
      /\ \A j \in 1..Len(v.filler) :
            /\ NatOf(v.filler[j].index) = n + j - 1
            /\ WordRead(v.filler[j].code) = <<0, 19>>
      /\ Len(v.filler) <= 5
      /\ n >= 64 => v.filler = <<>>

C22_VerilogCapacity ==
  \A v \in VerilogTexts :
    /\ VerilogEntriesAsClaimed(v)
    /\ \A k \in 1..Len(v.rows) : NatOf(v.rows[k].index) < 64
    /\ \A j \in 1..Len(v.filler) : NatOf(v.filler[j].index) < 64

\* what holds: the entries are as the claim has them; only the capacity is
\* not kept
C22_VerilogEntries == \A v \in VerilogTexts : VerilogEntriesAsClaimed(v)

\* 60 words: the filler at 60, 61, 62 and 63
C22_Filler ==
  /\ Len(machine_code) = 60
  /\ \E v \in VerilogTexts :
       /\ Len(v.filler) = 4
       /\ v.filler[4].index = <<"6", "3">>

\* 65 words: the last one at index 64
C22_BeyondCapacity ==
  /\ Len(machine_code) = 65
  /\ \E v \in VerilogTexts :
       /\ v.rows[65].index = <<"6", "4">>
       /\ v.filler = <<>>

(***************************************************************************)
(* C23: every word appended to the word sequence is an integer in          *)
(* [0, 2^32), for every instruction text that encodes without a            *)
(* diagnostic, including negative immediates, negative label offsets and   *)
(* label offsets outside the format's offset range.  A word is held as its *)
(* two 16-bit halves, and a half that a shift or a missing mask has pushed *)
(* beyond 16 bits, or below 0, is a word outside [0, 2^32).                *)
(***************************************************************************)
InWordRange(w) == w[1] \in 0..65535 /\ w[2] \in 0..65535

\* the call has returned a word
ProbeEncoded == probe.pc = "returned" /\ probe.result.ok

\* the distance from the instruction of the call to its label
ProbeDistance == probe.labels[Str(FarLabel)] - probe.current_addr

C23_WordRange ==
  /\ \A k \in 1..Len(machine_code) : InWordRange(machine_code[k])
  /\ ProbeEncoded => InWordRange(probe.result.v)

\* a jal 2^20 + 4 bytes after its label: a negative offset outside the
\* 21 bits
C23_Witness ==
  /\ ProbeEncoded
  /\ Str(FarLabel) \in DOMAIN probe.labels
  /\ Str(lower(Tokens(probe.line)[1])) = "jal"
  /\ ProbeDistance = 0 - 1048580
  /\ InWordRange(probe.result.v)

\* a branch 4096 bytes before its label
C23_WitnessBranch ==
  /\ ProbeEncoded
  /\ Str(FarLabel) \in DOMAIN probe.labels
  /\ Str(lower(Tokens(probe.line)[1])) = "bne"
  /\ ProbeDistance = 4096
  /\ InWordRange(probe.result.v)

\* 'addi x1, x0, -2048' in a program: a negative immediate
C23_WitnessImmediate ==
  /\ PassesDone
  /\ errors = <<>>
  /\ \E k \in 1..Len(instructions) :
       /\ Tokens(instructions[k][2]) =
            <<Chars("addi"), X(1), X(0), Dec(0 - 2048)>>
       /\ Bits(machine_code[k], 31, 20) = 2048

(***************************************************************************)
(* C24: offsets resolved from a label are not range-checked: a branch      *)
(* whose label lies outside [-4096, 4094] bytes of it, or a jal/j whose    *)
(* label lies outside the 21-bit signed range, yields no diagnostic and a  *)
(* word whose immediate fields hold only the low 13 (respectively 21) bits *)
(* of the offset, whereas the same offset written as a literal operand     *)
(* yields a diagnostic and no word.                                        *)
(***************************************************************************)
\* the call is for a branch or a jump to the far label
ProbeToLabel ==
  /\ probe.pc = "returned"
  /\ Str(FarLabel) \in DOMAIN probe.labels
  /\ Str(TargetToken(Tokens(probe.line))) = Str(FarLabel)

ProbeMnemonic == Str(lower(Tokens(probe.line)[1]))

\* the width of the offset of the format of the call
ProbeBits == IF ProbeMnemonic \in BranchNames THEN 13 ELSE 21

\* the offset cannot be written in the format
OutOfFormat(d, bits) ==
  d < 0 - 2 ^ (bits - 1) \/ d > 2 ^ (bits - 1) - 2

\* the immediate fields of a word, as an unsigned number of that width
FieldsOf(w, bits) ==
  (IF bits = 13 THEN DecodeB(w) ELSE DecodeJ(w)) % 2 ^ bits

\* the text of the call with the distance as a decimal literal
ProbeLiteralLine ==
  SubSeq(probe.line, 1, Len(probe.line) - Len(FarLabel))
    \o Dec(ProbeDistance)

C24_LabelOffsetsUnchecked ==
  (ProbeToLabel /\ OutOfFormat(ProbeDistance, ProbeBits)) =>
    /\ probe.result.ok
    /\ FieldsOf(probe.result.v, ProbeBits) = ProbeDistance % 2 ^ ProbeBits
    /\ Let(assemble_instruction(ProbeLiteralLine, probe.current_addr,
                                probe.labels), LAMBDA lit :
         ~lit.ok /\ lit.err = "Immediate out of range")

\* 'beq x5, x31, far' 4100 bytes after far: the word of 'beq x5, x31, 4092'
C24_Witness ==
  /\ ProbeToLabel
  /\ ProbeMnemonic = "beq"
  /\ ProbeDistance = 0 - 4100
  /\ probe.result.ok
  /\ DecodeB(probe.result.v) = 4092

\* 'j far' 2^20 bytes before far: the word of 'j -1048576'
C24_WitnessJump ==
  /\ ProbeToLabel
  /\ ProbeMnemonic = "j"
  /\ ProbeDistance = 1048576
  /\ probe.result.ok
  /\ DecodeJ(probe.result.v) = 0 - 1048576

\* the same call with the literal: a diagnostic
C24_WitnessLiteral ==
  /\ probe.pc = "returned"
  /\ probe.labels = NoLabels
  /\ Tokens(probe.line) = <<Chars("j"), Dec(1048576)>>
  /\ ~probe.result.ok
  /\ probe.result.err = "Immediate out of range"

(***************************************************************************)
(* C25: the listing, hardware-init and memory-image serializers pair words *)
(* with pending instructions by position: the k-th emitted entry carries   *)
(* the k-th word together with the address and text of the k-th pending    *)
(* instruction, and that instruction is the one the word was encoded from  *)
(* if and only if no pending instruction before it produced a diagnostic;  *)
(* in a state with a diagnostic on a non-final instruction, every later    *)
(* word is shown against the address 4 bytes (per earlier failure) below   *)
(* its own.                                                                *)
(* The code: to_hex, to_verilog, print_listing and generate_listing do     *)
(* so; to_mem writes the word alone, one per line, and the k-th pending    *)
(* instruction is the source of the k-th word if and only if no pending    *)
(* instruction up to and including it produced a diagnostic (when the      *)
(* k-th itself failed and none before it, the k-th word is a later         *)
(* instruction's).                                                         *)
(***************************************************************************)
\* a field of hexadecimal digits read back
RECURSIVE HexNat(_)
HexNat(cs) ==
  IF cs = <<>> THEN 0
  ELSE 16 * HexNat(SubSeq(cs, 1, Len(cs) - 1))
       + IndexIn(cs[Len(cs)], HexUpperChars) - 1

\* the pending instruction the k-th word was encoded from: the k-th of
\* those without a diagnostic
SourceOf(k) == NthOf({j \in 1..Len(instructions) : ~Failed(j)}, k)

FailedBefore(j) == Cardinality({i \in 1..(j - 1) : Failed(i)})

\* the k-th entry: the k-th word
CarriesWord(o, k) == WordRead(o.text.rows[k].code) = machine_code[k]

\* the k-th entry: the address and the text of the k-th pending instruction
CarriesInstruction(o, k) ==
  /\ {"addr", "asm"} \subseteq DOMAIN o.text.rows[k]
  /\ HexNat(o.text.rows[k].addr) = instructions[k][1]
  /\ o.text.rows[k].asm = instructions[k][2]

\* every later word against the address 4 bytes per earlier failure below
\* its own
ShownBelow(k) ==
  instructions[k][1] =
    instructions[SourceOf(k)][1] - 4 * FailedBefore(SourceOf(k))

\* the claim as it stands
C25_PairingAsClaimed ==
  \A i \in 1..Len(outputs) :
    Let(outputs[i], LAMBDA o :
      /\ Len(o.text.rows) = Len(machine_code)
      /\ \A k \in 1..Len(machine_code) :
           /\ CarriesWord(o, k)
           /\ CarriesInstruction(o, k)
           /\ (SourceOf(k) = k) <=> (FailedBefore(k) = 0)
           /\ ShownBelow(k))

\* with the memory image as the code writes it, and the k-th instruction
\* counted among those that may have failed
C25_PositionalPairing ==
  \A i \in 1..Len(outputs) :
    Let(outputs[i], LAMBDA o :
      /\ Len(o.text.rows) = Len(machine_code)
      /\ \A k \in 1..Len(machine_code) :
           /\ CarriesWord(o, k)
           /\ IF o.serializer = "to_mem"
                THEN /\ DOMAIN o.text.rows[k] = {"code"}
                     /\ instructions[k][1] = 4 * (k - 1)
                ELSE CarriesInstruction(o, k)
           /\ (SourceOf(k) = k) <=> (FailedBefore(k + 1) = 0)
           /\ ShownBelow(k))

\* 'add x1,x99,x2' / 'loop: sub x2,x2,x1' / 'bne x1,x2,loop' in the hex
\* listing: the words of lines 2 and 3 against the addresses 0 and 4 and the
\* texts of lines 1 and 2
C25_Witness ==
  /\ Len(instructions) = 3
  /\ Failed(1) /\ ~Failed(2) /\ ~Failed(3)
  /\ \E i \in 1..Len(outputs) :
       /\ outputs[i].serializer = "to_hex"
       /\ Len(outputs[i].text.rows) = 2
       /\ outputs[i].text.rows[2].addr = <<"0","0","0","0","0","0","0","4">>
       /\ outputs[i].text.rows[2].asm = instructions[2][2]
       /\ WordRead(outputs[i].text.rows[2].code) = machine_code[2]
       /\ SourceOf(2) = 3

\* the same state in the memory image: the words alone
C25_WitnessMem ==
  /\ Len(instructions) = 3
  /\ Failed(1) /\ ~Failed(2) /\ ~Failed(3)
  /\ \E i \in 1..Len(outputs) :
       /\ outputs[i].serializer = "to_mem"
       /\ Len(outputs[i].text.rows) = 2

====
